---------------------------- MODULE Spec2Model ----------------------------
(***************************************************************************)
(* Merchant profile aggregation and rule-based classification pipeline of  *)
(* big_contest: data_processor.py (load_fixed_data, preprocess_data,       *)
(* analyze_merchant), mbti_classifier.py (classify_merchant_mbti),         *)
(* persona_generator.py (create_persona) and the script runs of app.py     *)
(* (main) with its calls into gemini_api.py.                               *)
(*                                                                         *)
(* Values.  A table cell or a profile field is one of                      *)
(*   [na  |-> "NaN"] / [na |-> "None"]   a missing value (pd.isna is true) *)
(*   [num |-> n, den |-> d]              the float n/d, in lowest terms,   *)
(*                                       in hundredths of a percent point  *)
(*                                       (30.0 is 3000/1, 30.01 is 3001/1) *)
(*   [str |-> <<c1, ..., ck>>]           a string, one token per character *)
(*                                       (Hangul syllables are romanised)  *)
(* The numeric inputs are floats that float64 holds exactly (or 30.01 in a *)
(* single cell), their sums are exact and the one division of a mean is    *)
(* correctly rounded, hence monotone: every comparison against a literal   *)
(* threshold gives the answer the rational gives.                          *)
(***************************************************************************)
EXTENDS Integers, Sequences, FiniteSets, TLC

VARIABLES
    csv,            \* the rows of the input file, as pd.read_csv yields them
    df,             \* the table object the caller of preprocess_data holds
    calls_on_df,    \* whether preprocess_data was called on that object: 0, 1, many (2)
    df_profile,     \* what the latest call of preprocess_data returned or raised
    prev_profile,   \* what the call before it returned or raised
    merchant_row,   \* the profile row handed to the analyzer and the classifier
    analysis,       \* the result of analyze_merchant on merchant_row
    mbti,           \* the result of classify_merchant_mbti on merchant_row
    persona,        \* the result of create_persona on analysis
    session,        \* st.session_state of the browser session of app.py
    run             \* the latest script run of main(): its widget values and how it ended

vars == <<csv, df, calls_on_df, df_profile, prev_profile, merchant_row, analysis, mbti,
          persona, session, run>>

----------------------------------------------------------------------------
(* Bounds of the model *)

\* most monthly rows in the input file
MaxRows == 3

----------------------------------------------------------------------------
(* Values *)

NaN == [na |-> "NaN"]
None == [na |-> "None"]

Abs(n) == IF n < 0 THEN -n ELSE n

RECURSIVE GCD(_, _)
GCD(a, b) == IF b = 0 THEN a ELSE GCD(b, a % b)

\* the float n/d
Rat(n, d) ==
    LET g == GCD(Abs(n), d)
    IN  [num |-> n \div g, den |-> d \div g]

Num(n) == [num |-> n, den |-> 1]
Str(s) == [str |-> s]

IsNum(x) == DOMAIN x = {"num", "den"}
IsStr(x) == DOMAIN x = {"str"}
\* pd.isna / dropna / pd.isnull
IsNa(x) == DOMAIN x = {"na"}

\* float comparisons; every comparison with NaN is False
Lt(x, y) == IsNum(x) /\ IsNum(y) /\ x.num * y.den < y.num * x.den
Gt(x, y) == Lt(y, x)
Le(x, y) == IsNum(x) /\ IsNum(y) /\ x.num * y.den <= y.num * x.den
Ge(x, y) == Le(y, x)

\* the percent literal p of the source (30, 50.0, ...), in hundredths
Pct(p) == Num(p * 100)

RECURSIVE SeqSum(_)
SeqSum(s) == IF s = <<>> THEN 0 ELSE Head(s) + SeqSum(Tail(s))

\* Python's  needle in hay  on two strings: a contiguous run of hay
Contains(needle, hay) ==
    \E i \in 0..(Len(hay) - Len(needle)) :
        \A j \in 1..Len(needle) : hay[i + j] = needle[j]

Index(seq, x) == CHOOSE i \in 1..Len(seq) : seq[i] = x /\ \A j \in 1..(i - 1) : seq[j] # x

Range(seq) == {seq[i] : i \in 1..Len(seq)}

----------------------------------------------------------------------------
(* data_processor.py: constants *)

STATIC_COLS ==
    <<"MCT_BSE_AR", "MCT_SIGUNGU_NM", "HPSN_MCT_ZCD_NM", "HPSN_MCT_BZN_CD_NM",
      "ARE_D", "MCT_ME_D">>

QUARTILE_METRIC_COLS ==
    <<"MCT_OPE_MS_CN", "RC_M1_SAA", "RC_M1_TO_UE_CT",
      "RC_M1_UE_CUS_CN", "RC_M1_AV_NP_AT">>

AGE_GENDER_COLS ==
    <<"M12_MAL_1020_RAT", "M12_MAL_30_RAT", "M12_MAL_40_RAT", "M12_MAL_50_RAT",
      "M12_MAL_60_RAT", "M12_FME_1020_RAT", "M12_FME_30_RAT", "M12_FME_40_RAT",
      "M12_FME_50_RAT", "M12_FME_60_RAT">>

CUST_TYPE_COLS ==
    <<"RC_M1_SHC_RSD_UE_CLN_RAT", "RC_M1_SHC_WP_UE_CLN_RAT",
      "RC_M1_SHC_FLP_UE_CLN_RAT">>

RETENTION_COLS == <<"MCT_UE_CLN_REU_RAT", "MCT_UE_CLN_NEW_RAT">>

COMPETITION_COLS == <<"M12_SME_RY_SAA_PCE_RT", "M12_SME_BZN_SAA_PCE_RT">>

MEAN_COLS_FOR_AGG ==
    <<"DLV_SAA_RAT", "M1_SME_RY_SAA_RAT", "M1_SME_RY_CNT_RAT",
      "M12_SME_RY_SAA_PCE_RT", "M12_SME_BZN_SAA_PCE_RT">>
    \o AGE_GENDER_COLS \o CUST_TYPE_COLS \o RETENTION_COLS

ALL_METRIC_COLS == QUARTILE_METRIC_COLS \o MEAN_COLS_FOR_AGG

\* -999999.9, in hundredths
SV_VALUE == -99999990

\* required_cols of preprocess_data
required_cols == <<"ENCODED_MCT", "TA_YM">> \o STATIC_COLS \o ALL_METRIC_COLS

StaticColSet == Range(STATIC_COLS)
MeanColSet == Range(MEAN_COLS_FOR_AGG)
QuartileColSet == Range(QUARTILE_METRIC_COLS)
RequiredColSet == Range(required_cols)

\* the columns of the merged profile table, df_final
ProfileCols == {"ENCODED_MCT"} \cup StaticColSet \cup MeanColSet \cup QuartileColSet


----------------------------------------------------------------------------
(* The input file: monthly rows of two merchants *)

\* merchant ids, in the ascending order groupby sorts its keys into
MerchantIds == <<Str(<<"M", "1">>), Str(<<"M", "2">>)>>

\* the six bucket labels of the input data, the keys of QUARTILE_MAPPING:
\* '10%이하', '10-25%', '25-50%', '50-75%', '75-90%', '90%초과'
B_10 == Str(<<"1", "0", "%", "i", "ha">>)
B_10_25 == Str(<<"1", "0", "-", "2", "5", "%">>)
B_25_50 == Str(<<"2", "5", "-", "5", "0", "%">>)
B_50_75 == Str(<<"5", "0", "-", "7", "5", "%">>)
B_75_90 == Str(<<"7", "5", "-", "9", "0", "%">>)
B_90 == Str(<<"9", "0", "%", "cho", "gwa">>)

\* the display labels, the values of QUARTILE_MAPPING: '상위 10%',
\* '상위 10-25%', '중위 25-50%', '하위 50-75%', '하위 75-90%', '하위 90% 초과'
QUARTILE_MAPPING ==
    (B_10 :> Str(<<"sang", "wi", " ", "1", "0", "%">>))
    @@ (B_10_25 :> Str(<<"sang", "wi", " ", "1", "0", "-", "2", "5", "%">>))
    @@ (B_25_50 :> Str(<<"jung", "wi", " ", "2", "5", "-", "5", "0", "%">>))
    @@ (B_50_75 :> Str(<<"ha", "wi", " ", "5", "0", "-", "7", "5", "%">>))
    @@ (B_75_90 :> Str(<<"ha", "wi", " ", "7", "5", "-", "9", "0", "%">>))
    @@ (B_90 :> Str(<<"ha", "wi", " ", "9", "0", "%", " ", "cho", "gwa">>))

\* the text "-999999.9", as a cell of a column read as strings holds it
SV_TEXT == Str(<<"-", "9", "9", "9", "9", "9", "9", ".", "9">>)

\* the cells a column takes in the row templates: two values, an empty cell,
\* the sentinel as a number, a third value (in a ratio column: text that is
\* no number) and the sentinel as text
StaticVals == <<Str(<<"A">>), Str(<<"B">>), NaN, Num(SV_VALUE), Str(<<"C">>), SV_TEXT>>
RatioVals == <<Num(2000), Num(4000), NaN, Num(SV_VALUE), Str(<<"x">>), SV_TEXT>>
BucketVals == <<B_10, B_90, NaN, Num(SV_VALUE), B_75_90, SV_TEXT>>

\* the row templates; template k gives column number s of its group the
\* cell number k + s - 1 (cyclically) of the group's list, so that the
\* columns of one row differ and every cell of a list occurs in columns of
\* its group; the first column of a group takes the cells in list order
Templates == 1..4

Rotated(vals, k, s) == vals[((k + s - 2) % Len(vals)) + 1]

TemplateCell(k, c) ==
    IF c \in StaticColSet THEN Rotated(StaticVals, k, Index(STATIC_COLS, c))
    ELSE IF c \in MeanColSet
        THEN Rotated(RatioVals, k, Index(MEAN_COLS_FOR_AGG, c))
    ELSE Rotated(BucketVals, k, Index(QUARTILE_METRIC_COLS, c))

\* row number i of a file: merchant m, period 2023-0i, cells of template k
RawRow(cols, i, m, k) ==
    [c \in cols |->
        IF c = "ENCODED_MCT" THEN m
        ELSE IF c = "TA_YM" THEN Num(202300 + i)
        ELSE TemplateCell(k, c)]

\* files with every required column: up to MaxRows rows, each of either
\* merchant and any template
CompleteFiles ==
    UNION { { [columns |-> RequiredColSet,
               rows |-> [i \in 1..n |->
                           RawRow(RequiredColSet, i, pick[i][1], pick[i][2])]]
              : pick \in [1..n -> Range(MerchantIds) \X Templates] }
            : n \in 1..MaxRows }

\* files that lack required columns
IncompleteFiles ==
    { [columns |-> cols, rows |-> [i \in 1..n |-> RawRow(cols, i, MerchantIds[1], 1)]]
      : cols \in { RequiredColSet \ {"TA_YM"},
                   RequiredColSet \ {"RC_M1_SAA", "DLV_SAA_RAT"} },
        n \in 1..MaxRows }

CsvFiles == CompleteFiles \cup IncompleteFiles

----------------------------------------------------------------------------
(* data_processor.py: preprocess_data *)

Digits == <<"0", "1", "2", "3", "4", "5", "6", "7", "8", "9">>

DigitSet == Range(Digits)

IsDigits(s) == s # <<>> /\ \A i \in 1..Len(s) : s[i] \in DigitSet

RECURSIVE DigitsValue(_)
DigitsValue(s) ==
    IF s = <<>> THEN 0
    ELSE 10 * DigitsValue(SubSeq(s, 1, Len(s) - 1)) + (Index(Digits, s[Len(s)]) - 1)

\* the number a text denotes, in hundredths: digits, or digits "." digit,
\* with an optional leading "-"; NaN for any other text
ParseNumber(s) ==
    LET neg == s # <<>> /\ Head(s) = "-"
        body == IF neg THEN Tail(s) ELSE s
        sign == IF neg THEN -1 ELSE 1
        n == Len(body)
    IN  IF IsDigits(body) THEN Num(sign * 100 * DigitsValue(body))
        ELSE IF n >= 3 /\ body[n - 1] = "." /\ IsDigits(SubSeq(body, 1, n - 2))
                /\ body[n] \in DigitSet
            THEN Num(sign * (100 * DigitsValue(SubSeq(body, 1, n - 2))
                             + 10 * DigitsValue(<<body[n]>>)))
        ELSE NaN

\* pd.to_numeric(errors='coerce') on one cell
to_numeric(x) ==
    IF IsNum(x) THEN x
    ELSE IF IsStr(x) THEN ParseNumber(x.str)
    ELSE NaN

\* replace(SV_VALUE, np.nan) on one cell: a cell that is the number
replace_sv(x) == IF IsNum(x) /\ x = Num(SV_VALUE) THEN NaN ELSE x

\* line 79: the numeric columns of the caller's table, coerced in place
coerce_numeric(t) ==
    [t EXCEPT !.rows =
        [i \in DOMAIN t.rows |->
            [c \in t.columns |->
                IF c \in MeanColSet THEN to_numeric(t.rows[i][c])
                ELSE t.rows[i][c]]]]

\* faulty variant: the sentinel replaced in the numeric columns only
replace_all_numeric_only(t) ==
    [t EXCEPT !.rows =
        [i \in DOMAIN t.rows |->
            [c \in t.columns |->
                IF c \in MeanColSet THEN replace_sv(t.rows[i][c]) ELSE t.rows[i][c]]]]

\* line 80: a new table, the sentinel replaced in every column
replace_all(t) ==
    [t EXCEPT !.rows =
        [i \in DOMAIN t.rows |-> [c \in t.columns |-> replace_sv(t.rows[i][c])]]]

\* the cells of column c in the rows, in row order
Column(rows, c) == [i \in DOMAIN rows |-> rows[i][c]]

NotNa(x) == ~IsNa(x)

dropna(series) == SelectSeq(series, NotNa)

\* faulty variant: every group holds all the rows of the table
groupby_all(t) ==
    LET present(m) == \E i \in DOMAIN t.rows : t.rows[i]["ENCODED_MCT"] = m
        keys == SelectSeq(MerchantIds, present)
    IN  [g \in DOMAIN keys |-> [key |-> keys[g], rows |-> t.rows]]

\* groupby('ENCODED_MCT'): the groups in ascending key order (rows whose key
\* is missing belong to no group), each with its rows in table order
groupby(t) ==
    LET present(m) == \E i \in DOMAIN t.rows : t.rows[i]["ENCODED_MCT"] = m
        keys == SelectSeq(MerchantIds, present)
    IN  [g \in DOMAIN keys |->
            LET mine(r) == r["ENCODED_MCT"] = keys[g]
            IN  [key |-> keys[g], rows |-> SelectSeq(t.rows, mine)]]

\* faulty variant: the cell of the first row of the group, null or not
first_positional(series) == IF series = <<>> THEN NaN ELSE Head(series)

\* GroupBy.first() on one column of a group: the first non-null cell
first(series) ==
    LET kept == dropna(series)
    IN  IF kept = <<>> THEN NaN ELSE Head(kept)

\* faulty variant: nulls counted as zeros, the sum divided by the number of rows
mean_nulls_as_zero(series) ==
    LET nums == [i \in DOMAIN series |-> IF IsNa(series[i]) THEN 0 ELSE series[i].num]
    IN  IF series = <<>> THEN NaN ELSE Rat(SeqSum(nums), Len(series))

\* GroupBy.mean() on one numeric column of a group: nulls are skipped
mean(series) ==
    LET kept == dropna(series)
        nums == [i \in DOMAIN kept |-> kept[i].num]
    IN  IF kept = <<>> THEN NaN ELSE Rat(SeqSum(nums), Len(kept))

\* Counter(...): the distinct elements in order of first occurrence
RECURSIVE CounterKeys(_)
CounterKeys(s) ==
    IF s = <<>> THEN <<>>
    ELSE LET init == SubSeq(s, 1, Len(s) - 1)
             last == s[Len(s)]
         IN  IF last \in Range(init) THEN CounterKeys(init)
             ELSE Append(CounterKeys(init), last)

Count(s, x) == Cardinality({i \in DOMAIN s : s[i] = x})

\* faulty variant: among the labels of the largest count, the one seen last
get_mode_or_last(series) ==
    LET kept == dropna(series)
        keys == CounterKeys(kept)
        best == CHOOSE i \in DOMAIN keys :
                    /\ \A j \in DOMAIN keys : Count(kept, keys[j]) <= Count(kept, keys[i])
                    /\ \A j \in (i + 1)..Len(keys) : Count(kept, keys[j]) < Count(kept, keys[i])
    IN  IF keys = <<>> THEN None ELSE keys[best]

\* counts.most_common(1)[0][0]: max over the items in insertion order keeps
\* the first item of the largest count
get_mode_or_first(series) ==
    LET kept == dropna(series)
        keys == CounterKeys(kept)
        best == CHOOSE i \in DOMAIN keys :
                    /\ \A j \in DOMAIN keys : Count(kept, keys[j]) <= Count(kept, keys[i])
                    /\ \A j \in 1..(i - 1) : Count(kept, keys[j]) < Count(kept, keys[i])
    IN  IF keys = <<>> THEN None ELSE keys[best]

\* the reduction named how, of lines 83, 86 and 89-90, on one column of a group
reduce(how, series) ==
    CASE how = "first" -> first(series)
      [] how = "mean" -> mean(series)
      [] how = "get_mode_or_first" -> get_mode_or_first(series)

\* one reduction of every group over the columns cols, then reset_index()
aggregate(groups, cols, how) ==
    [g \in DOMAIN groups |->
        [c \in {"ENCODED_MCT"} \cup Range(cols) |->
            IF c = "ENCODED_MCT" THEN groups[g].key
            ELSE reduce(how, Column(groups[g].rows, c))]]

\* faulty variant: every left row joined with every right row
RECURSIVE merge_cross(_, _)
merge_cross(left, right) ==
    IF left = <<>> THEN <<>>
    ELSE [j \in DOMAIN right |-> right[j] @@ Head(left)] \o merge_cross(Tail(left), right)

\* left.merge(right, on='ENCODED_MCT'): the inner join, in left order
RECURSIVE merge(_, _)
merge(left, right) ==
    IF left = <<>> THEN <<>>
    ELSE LET l == Head(left)
             match(r) == r["ENCODED_MCT"] = l["ENCODED_MCT"]
             hits == SelectSeq(right, match)
         IN  [j \in DOMAIN hits |-> l @@ hits[j]] \o merge(Tail(left), right)

missing_cols(t) ==
    LET absent(c) == c \notin t.columns
    IN  SelectSeq(required_cols, absent)

\* faulty variant: the call also reverses the rows of the caller's table
in_place_reversing(t) ==
    LET c == coerce_numeric(t)
    IN  [c EXCEPT !.rows = [i \in DOMAIN c.rows |-> c.rows[Len(c.rows) + 1 - i]]]

\* the table the caller holds after the call: only line 79 writes to it
in_place(t) == coerce_numeric(t)

\* lines 82-96 on the table of line 80
df_final_of(t) ==
    LET groups == groupby(t)
        df_static == aggregate(groups, STATIC_COLS, "first")
        df_avg == aggregate(groups, MEAN_COLS_FOR_AGG, "mean")
        df_quartile == aggregate(groups, QUARTILE_METRIC_COLS, "get_mode_or_first")
    IN  merge(merge(df_static, df_avg), df_quartile)

\* preprocess_data(t): what it returns or raises, and the caller's table after
preprocess_data(t) ==
    LET missing == missing_cols(t)
        coerced == in_place(t)
    IN  IF missing # <<>>
        THEN [kind |-> "ValueError", missing |-> missing, table |-> <<>>, arg |-> t]
        ELSE [kind |-> "return", missing |-> <<>>,
              table |-> df_final_of(replace_all(coerced)), arg |-> coerced]


----------------------------------------------------------------------------
(* mbti_classifier.py *)

\* the ten archetypes and their descriptions (romanised names, glossed text):
\* 동네 사랑방, 오피스 핫플, 숨은 맛집, 배달의 고수, 반짝 스타, 성장 꿈나무,
\* 고독한 미식가, 가격 파괴자, 상권의 지배자, 위기의 소상공인
STORE_TYPE_DEFINITIONS ==
    [dongne_sarangbang |-> "neighbourhood fixture run on a stable base of regulars",
     opiseu_hatpeul |-> "feeds the nearby office workers, with a clear peak time",
     sumeun_matjip |-> "turns chance visitors into regulars by taste and charm",
     baedarui_gosu |-> "focused on delivery and take-out, high turnover",
     banjjak_seuta |-> "rose fast through SNS or media, must turn new customers into regulars",
     seongjang_kkumnamu |-> "just started and shows promise",
     godokhan_misikga |-> "specialist with a small devoted following and a high ticket",
     gagyeok_pagoeja |-> "draws many customers with value for money at thin margins",
     sanggwonui_jibaeja |-> "the number one of the neighbourhood in every respect",
     wigiui_sosanggongin |-> "needs urgent improvement of its indicators across the board"]

\* Series.get(key, default)
Get(row, key, default) == IF key \in DOMAIN row THEN row[key] ELSE default

\* outcomes of evaluating a Python condition: True, False, raised TypeError
Truth(p) == IF p THEN "T" ELSE "F"
\*  a and b,  a or b : b is evaluated only when a does not decide
AndThen(a, b) == IF a = "T" THEN b ELSE a
OrElse(a, b) == IF a = "F" THEN b ELSE a

\*  needle in x : a substring test on a string, TypeError on None or a float
In(needle, x) == IF IsStr(x) THEN Truth(Contains(needle, x.str)) ELSE "E"

\* '하위' and '상위'
HAWI == <<"ha", "wi">>
SANGWI == <<"sang", "wi">>

\* the keys of cust_type_ratios in insertion order: '거주', '직장', '유동'
cust_type_keys == <<"geoju", "jikjang", "yudong">>

cust_type_ratios(row) ==
    [geoju |-> Get(row, "RC_M1_SHC_RSD_UE_CLN_RAT", Num(0)),
     jikjang |-> Get(row, "RC_M1_SHC_WP_UE_CLN_RAT", Num(0)),
     yudong |-> Get(row, "RC_M1_SHC_FLP_UE_CLN_RAT", Num(0))]

\* max(keys, key=f): the running maximum is replaced only by a key whose
\* value compares greater (a comparison with NaN is False)
RECURSIVE MaxBy(_, _, _)
MaxBy(keys, f, cur) ==
    IF keys = <<>> THEN cur
    ELSE MaxBy(Tail(keys), f, IF Gt(f[Head(keys)], f[cur]) THEN Head(keys) ELSE cur)

main_cust_type(row) ==
    MaxBy(Tail(cust_type_keys), cust_type_ratios(row), Head(cust_type_keys))

\* the ten conditions of the if/elif chain, lines 43-61, in order
RuleEval(i, row) ==
    LET ry_rank == Get(row, "M12_SME_RY_SAA_PCE_RT", Pct(100))
        bzn_rank == Get(row, "M12_SME_BZN_SAA_PCE_RT", Pct(100))
        repeat_rate == Get(row, "MCT_UE_CLN_REU_RAT", Num(0))
        new_rate == Get(row, "MCT_UE_CLN_NEW_RAT", Num(0))
        delivery_rate == Get(row, "DLV_SAA_RAT", Num(0))
        cust_count_rank == Get(row, "RC_M1_UE_CUS_CN", B_90)
        avg_spend_rank == Get(row, "RC_M1_AV_NP_AT", B_90)
    IN  CASE i = 1 -> Truth(Lt(ry_rank, Pct(30)) /\ Lt(bzn_rank, Pct(30)))
          [] i = 2 -> AndThen(Truth(Gt(ry_rank, Pct(80)) /\ Gt(bzn_rank, Pct(80))),
                              OrElse(In(B_90.str, cust_count_rank),
                                     In(B_75_90.str, cust_count_rank)))
          [] i = 3 -> Truth(Gt(delivery_rate, Pct(50)))
          [] i = 4 -> Truth(Gt(new_rate, Pct(60)) /\ Lt(repeat_rate, Pct(30)))
          [] i = 5 -> AndThen(In(HAWI, avg_spend_rank), In(SANGWI, cust_count_rank))
          [] i = 6 -> AndThen(In(SANGWI, avg_spend_rank), In(HAWI, cust_count_rank))
          [] i = 7 -> Truth(main_cust_type(row) = "jikjang" /\ Lt(ry_rank, Pct(50)))
          [] i = 8 -> Truth(main_cust_type(row) = "geoju" /\ Gt(repeat_rate, Pct(50)))
          [] i = 9 -> Truth(main_cust_type(row) = "yudong" /\ Gt(repeat_rate, Pct(40))
                            /\ Gt(bzn_rank, Pct(50)))
          [] i = 10 -> Truth(Get(row, "MCT_OPE_MS_CN", None) \in {B_75_90, B_90})

\* the label each branch assigns
RuleLabel ==
    <<"sanggwonui_jibaeja", "wigiui_sosanggongin", "baedarui_gosu", "banjjak_seuta",
      "gagyeok_pagoeja", "godokhan_misikga", "opiseu_hatpeul", "dongne_sarangbang",
      "sumeun_matjip", "seongjang_kkumnamu">>

\* line 40
DefaultLabel == "wigiui_sosanggongin"

\* faulty variant: the chain with the two bucket branches moved to the front
RECURSIVE store_type_name_reordered(_, _)
store_type_name_reordered(i, row) ==
    LET order == <<5, 6, 1, 2, 3, 4, 7, 8, 9, 10>>
    IN  IF i > Len(order) THEN DefaultLabel
        ELSE LET e == RuleEval(order[i], row)
             IN  IF e = "T" THEN RuleLabel[order[i]]
                 ELSE IF e = "E" THEN "TypeError"
                 ELSE store_type_name_reordered(i + 1, row)

\* the chain from branch i on: the first condition that is True assigns the
\* label; a condition that raises ends the call
RECURSIVE store_type_name(_, _)
store_type_name(i, row) ==
    IF i > Len(RuleLabel) THEN DefaultLabel
    ELSE LET e == RuleEval(i, row)
         IN  IF e = "T" THEN RuleLabel[i]
             ELSE IF e = "E" THEN "TypeError"
             ELSE store_type_name(i + 1, row)

classify_merchant_mbti(row) ==
    LET name == store_type_name(1, row)
    IN  IF name = "TypeError"
        THEN [kind |-> "TypeError", name |-> "", description |-> ""]
        ELSE [kind |-> "return", name |-> name,
              description |-> STORE_TYPE_DEFINITIONS[name]]


----------------------------------------------------------------------------
(* data_processor.py: analyze_merchant *)

\* '남성 20대이하', ..., '여성 60대이상', by column
AGE_GENDER_NAMES ==
    [M12_MAL_1020_RAT |-> <<"nam", "seong", " ", "2", "0", "dae", "i", "ha">>,
     M12_MAL_30_RAT |-> <<"nam", "seong", " ", "3", "0", "dae">>,
     M12_MAL_40_RAT |-> <<"nam", "seong", " ", "4", "0", "dae">>,
     M12_MAL_50_RAT |-> <<"nam", "seong", " ", "5", "0", "dae">>,
     M12_MAL_60_RAT |-> <<"nam", "seong", " ", "6", "0", "dae", "i", "sang">>,
     M12_FME_1020_RAT |-> <<"yeo", "seong", " ", "2", "0", "dae", "i", "ha">>,
     M12_FME_30_RAT |-> <<"yeo", "seong", " ", "3", "0", "dae">>,
     M12_FME_40_RAT |-> <<"yeo", "seong", " ", "4", "0", "dae">>,
     M12_FME_50_RAT |-> <<"yeo", "seong", " ", "5", "0", "dae">>,
     M12_FME_60_RAT |-> <<"yeo", "seong", " ", "6", "0", "dae", "i", "sang">>]

\* '거주 이용 고객', '직장 이용 고객', '유동인구 이용 고객'
CUST_TYPE_NAMES ==
    [RC_M1_SHC_RSD_UE_CLN_RAT |-> <<"geo", "ju", " ", "i", "yong", " ", "go", "gaek">>,
     RC_M1_SHC_WP_UE_CLN_RAT |-> <<"jik", "jang", " ", "i", "yong", " ", "go", "gaek">>,
     RC_M1_SHC_FLP_UE_CLN_RAT |->
        <<"yu", "dong", "in", "gu", " ", "i", "yong", " ", "go", "gaek">>]

\* '정보 없음'
NO_INFO == <<"jeong", "bo", " ", "eop", "eum">>

\* ' 이용 고객'
IYONG_GOGAEK == <<" ", "i", "yong", " ", "go", "gaek">>

\* str.replace(old, new): every occurrence, left to right
RECURSIVE StrReplace(_, _, _)
StrReplace(s, old, new) ==
    IF Len(s) < Len(old) THEN s
    ELSE IF SubSeq(s, 1, Len(old)) = old
        THEN new \o StrReplace(SubSeq(s, Len(old) + 1, Len(s)), old, new)
    ELSE <<Head(s)>> \o StrReplace(Tail(s), old, new)

RECURSIVE DigitsOf(_)
DigitsOf(n) ==
    IF n < 10 THEN <<Digits[n + 1]>>
    ELSE Append(DigitsOf(n \div 10), Digits[(n % 10) + 1])

\* f"{x:.1f}" of the float x: one decimal, rounded to nearest, ties to even
Fmt1(x) ==
    LET a == Abs(x.num)
        unit == 10 * x.den
        q == a \div unit
        r == a % unit
        tenths == IF 2 * r > unit \/ (2 * r = unit /\ q % 2 = 1) THEN q + 1 ELSE q
        sign == IF x.num < 0 THEN <<"-">> ELSE <<>>
    IN  sign \o DigitsOf(tenths \div 10) \o <<".">> \o DigitsOf(tenths % 10)

\* 100 - x
From100(x) == Rat(10000 * x.den - x.num, x.den)

\* Series.max() of a series without nulls
RECURSIVE SeriesMax(_)
SeriesMax(series) ==
    IF Len(series) = 1 THEN series[1]
    ELSE LET m == SeriesMax(Tail(series))
         IN  IF Ge(series[1], m) THEN series[1] ELSE m

\* Series.idxmax() of row[cols].dropna(): the first column of the largest value
idxmax(row, cols) ==
    LET present(c) == ~IsNa(row[c])
        kept == SelectSeq(cols, present)
        top == SeriesMax([i \in DOMAIN kept |-> row[kept[i]]])
    IN  kept[CHOOSE i \in DOMAIN kept :
                row[kept[i]] = top /\ \A j \in 1..(i - 1) : row[kept[j]] # top]

\* faulty variant: the concentration test written  max_ag_ratio > 50.0
cust_analysis_strict(row) ==
    LET age_gender_ratios == dropna([i \in DOMAIN AGE_GENDER_COLS |-> row[AGE_GENDER_COLS[i]]])
        empty == age_gender_ratios = <<>>
        max_ag_ratio == IF empty THEN Num(0) ELSE SeriesMax(age_gender_ratios)
        dominant_ag_name ==
            IF empty THEN NO_INFO ELSE AGE_GENDER_NAMES[idxmax(row, AGE_GENDER_COLS)]
        primary_ct_ratios == dropna([i \in DOMAIN CUST_TYPE_COLS |-> row[CUST_TYPE_COLS[i]]])
        primary_ct_name ==
            IF primary_ct_ratios = <<>> THEN NO_INFO
            ELSE StrReplace(CUST_TYPE_NAMES[idxmax(row, CUST_TYPE_COLS)], IYONG_GOGAEK, <<>>)
    IN  [template |-> IF Gt(max_ag_ratio, Pct(50)) THEN "cust_concentrated"
                      ELSE "cust_diverse",
         args |-> <<dominant_ag_name, primary_ct_name, Fmt1(max_ag_ratio)>>]

\* A. lines 118-131.  A sentence is its template and the texts filled in.
cust_analysis(row) ==
    LET age_gender_ratios == dropna([i \in DOMAIN AGE_GENDER_COLS |-> row[AGE_GENDER_COLS[i]]])
        empty == age_gender_ratios = <<>>
        max_ag_ratio == IF empty THEN Num(0) ELSE SeriesMax(age_gender_ratios)
        dominant_ag_name ==
            IF empty THEN NO_INFO ELSE AGE_GENDER_NAMES[idxmax(row, AGE_GENDER_COLS)]
        primary_ct_ratios == dropna([i \in DOMAIN CUST_TYPE_COLS |-> row[CUST_TYPE_COLS[i]]])
        ct_empty == primary_ct_ratios = <<>>
        primary_ct_name ==
            IF ct_empty THEN NO_INFO
            ELSE StrReplace(CUST_TYPE_NAMES[idxmax(row, CUST_TYPE_COLS)], IYONG_GOGAEK, <<>>)
        primary_ct_ratio == IF ct_empty THEN Num(0) ELSE SeriesMax(primary_ct_ratios)
    IN  [template |-> IF Ge(max_ag_ratio, Pct(50)) THEN "cust_concentrated"
                      ELSE "cust_diverse",
         args |-> <<dominant_ag_name, primary_ct_name, Fmt1(max_ag_ratio)>>]

\* faulty variant: the low-retention test written  repeat_rate < 30.0
retention_analysis_strict(row) ==
    LET repeat_rate == Get(row, "MCT_UE_CLN_REU_RAT", NaN)
        new_rate == Get(row, "MCT_UE_CLN_NEW_RAT", NaN)
    IN  IF ~IsNa(repeat_rate) /\ ~IsNa(new_rate)
        THEN IF Lt(repeat_rate, Pct(30))
             THEN IF Gt(new_rate, Pct(50))
                  THEN [template |-> "retention_low_new_inflow",
                        args |-> <<Fmt1(new_rate), Fmt1(repeat_rate)>>]
                  ELSE [template |-> "retention_low_new_weak",
                        args |-> <<Fmt1(repeat_rate), Fmt1(new_rate)>>]
             ELSE [template |-> "retention_good",
                   args |-> <<Fmt1(repeat_rate), Fmt1(new_rate)>>]
        ELSE [template |-> "retention_insufficient", args |-> <<>>]

\* faulty variant: the new-customer test written  new_rate >= 50.0
retention_analysis_new_inclusive(row) ==
    LET repeat_rate == Get(row, "MCT_UE_CLN_REU_RAT", NaN)
        new_rate == Get(row, "MCT_UE_CLN_NEW_RAT", NaN)
    IN  IF ~IsNa(repeat_rate) /\ ~IsNa(new_rate)
        THEN IF Le(repeat_rate, Pct(30))
             THEN IF Ge(new_rate, Pct(50))
                  THEN [template |-> "retention_low_new_inflow",
                        args |-> <<Fmt1(new_rate), Fmt1(repeat_rate)>>]
                  ELSE [template |-> "retention_low_new_weak",
                        args |-> <<Fmt1(repeat_rate), Fmt1(new_rate)>>]
             ELSE [template |-> "retention_good",
                   args |-> <<Fmt1(repeat_rate), Fmt1(new_rate)>>]
        ELSE [template |-> "retention_insufficient", args |-> <<>>]

\* B. lines 135-146
retention_analysis(row) ==
    LET repeat_rate == Get(row, "MCT_UE_CLN_REU_RAT", NaN)
        new_rate == Get(row, "MCT_UE_CLN_NEW_RAT", NaN)
    IN  IF ~IsNa(repeat_rate) /\ ~IsNa(new_rate)
        THEN IF Le(repeat_rate, Pct(30))
             THEN IF Gt(new_rate, Pct(50))
                  THEN [template |-> "retention_low_new_inflow",
                        args |-> <<Fmt1(new_rate), Fmt1(repeat_rate)>>]
                  ELSE [template |-> "retention_low_new_weak",
                        args |-> <<Fmt1(repeat_rate), Fmt1(new_rate)>>]
             ELSE [template |-> "retention_good",
                   args |-> <<Fmt1(repeat_rate), Fmt1(new_rate)>>]
        ELSE [template |-> "retention_insufficient", args |-> <<>>]

\* faulty variant: the rank sentence given only when the repeat ratio is present
comp_analysis_after_retention(row) ==
    LET ry_rank == Get(row, "M12_SME_RY_SAA_PCE_RT", NaN)
        bzn_rank == Get(row, "M12_SME_BZN_SAA_PCE_RT", NaN)
        both == <<Fmt1(From100(ry_rank)), Fmt1(From100(bzn_rank))>>
    IN  IF ~IsNa(ry_rank) /\ ~IsNa(bzn_rank) /\ ~IsNa(Get(row, "MCT_UE_CLN_REU_RAT", NaN))
        THEN IF Lt(ry_rank, Pct(30)) /\ Lt(bzn_rank, Pct(30))
             THEN [template |-> "comp_top_in_both", args |-> both]
             ELSE IF Lt(ry_rank, Pct(30)) /\ Ge(bzn_rank, Pct(70))
             THEN [template |-> "comp_good_category_low_district", args |-> both]
             ELSE IF Ge(ry_rank, Pct(70)) /\ Ge(bzn_rank, Pct(70))
             THEN [template |-> "comp_low_in_both", args |-> both]
             ELSE [template |-> "comp_review_needed", args |-> both]
        ELSE [template |-> "comp_insufficient", args |-> <<>>]

\* faulty variant: the low ranks tested with  > rank_threshold
comp_analysis_strict(row) ==
    LET ry_rank == Get(row, "M12_SME_RY_SAA_PCE_RT", NaN)
        bzn_rank == Get(row, "M12_SME_BZN_SAA_PCE_RT", NaN)
        both == <<Fmt1(From100(ry_rank)), Fmt1(From100(bzn_rank))>>
    IN  IF ~IsNa(ry_rank) /\ ~IsNa(bzn_rank)
        THEN IF Lt(ry_rank, Pct(30)) /\ Lt(bzn_rank, Pct(30))
             THEN [template |-> "comp_top_in_both", args |-> both]
             ELSE IF Lt(ry_rank, Pct(30)) /\ Gt(bzn_rank, Pct(70))
             THEN [template |-> "comp_good_category_low_district", args |-> both]
             ELSE IF Gt(ry_rank, Pct(70)) /\ Gt(bzn_rank, Pct(70))
             THEN [template |-> "comp_low_in_both", args |-> both]
             ELSE [template |-> "comp_review_needed", args |-> both]
        ELSE [template |-> "comp_insufficient", args |-> <<>>]

\* C. lines 150-168
comp_analysis(row) ==
    LET ry_rank == Get(row, "M12_SME_RY_SAA_PCE_RT", NaN)
        bzn_rank == Get(row, "M12_SME_BZN_SAA_PCE_RT", NaN)
        rank_threshold == Pct(70)
    IN  IF ~IsNa(ry_rank) /\ ~IsNa(bzn_rank)
        THEN LET ry_pos_text == Fmt1(From100(ry_rank))
                 bzn_pos_text == Fmt1(From100(bzn_rank))
                 both == <<ry_pos_text, bzn_pos_text>>
             IN  IF Lt(ry_rank, Pct(30)) /\ Lt(bzn_rank, Pct(30))
                 THEN [template |-> "comp_top_in_both", args |-> both]
                 ELSE IF Lt(ry_rank, Pct(30)) /\ Ge(bzn_rank, rank_threshold)
                 THEN [template |-> "comp_good_category_low_district", args |-> both]
                 ELSE IF Ge(ry_rank, rank_threshold) /\ Ge(bzn_rank, rank_threshold)
                 THEN [template |-> "comp_low_in_both", args |-> both]
                 ELSE [template |-> "comp_review_needed", args |-> both]
        ELSE [template |-> "comp_insufficient", args |-> <<>>]

\* the dictionary analyze_merchant returns, lines 172-180
analyze_merchant(row) ==
    [cust_analysis_text |-> cust_analysis(row),
     retention_analysis_text |-> retention_analysis(row),
     comp_analysis_text |-> comp_analysis(row),
     static_info |-> [c \in StaticColSet |-> row[c]],
     metric_info |-> [c \in QuartileColSet |-> row[c]],
     age_gender_cols |-> AGE_GENDER_COLS,
     age_gender_names |-> AGE_GENDER_NAMES]


----------------------------------------------------------------------------
(* The pipeline: read the file, aggregate, select a merchant *)

\* nothing read, nothing computed yet
Nothing == [none |-> NaN]

Init ==
    /\ csv \in CsvFiles
    /\ df = Nothing
    /\ calls_on_df = 0
    /\ df_profile = Nothing
    /\ prev_profile = Nothing
    /\ merchant_row = Nothing
    /\ analysis = Nothing
    /\ mbti = Nothing
    /\ persona = Nothing
    /\ session = Nothing
    /\ run = Nothing

\* load_fixed_data, line 105: a fresh table object of the file's rows
ReadCsv ==
    /\ df' = csv
    /\ calls_on_df' = 0
    /\ UNCHANGED <<csv, df_profile, prev_profile, merchant_row, analysis, mbti, persona, session, run>>

\* a call preprocess_data(df), lines 69-96, on the table object held
PreprocessData ==
    /\ df # Nothing
    /\ LET out == preprocess_data(df)
       IN  /\ df' = out.arg
           /\ df_profile' = [kind |-> out.kind, missing |-> out.missing, table |-> out.table]
    /\ prev_profile' = df_profile
    /\ calls_on_df' = IF calls_on_df = 0 THEN 1 ELSE 2
    /\ UNCHANGED <<csv, merchant_row, analysis, mbti, persona, session, run>>

\* app.py, lines 202-214 and 262-274: the row of the selected merchant is
\* classified and analysed
SelectMerchant ==
    /\ df_profile # Nothing
    /\ df_profile.kind = "return"
    /\ \E i \in DOMAIN df_profile.table :
        /\ merchant_row' = df_profile.table[i]
        /\ mbti' = classify_merchant_mbti(df_profile.table[i])
        /\ analysis' = analyze_merchant(df_profile.table[i])
    /\ UNCHANGED <<csv, df, calls_on_df, df_profile, prev_profile, persona, session, run>>

Next == ReadCsv \/ PreprocessData \/ SelectMerchant

Spec == Init /\ [][Next]_vars


----------------------------------------------------------------------------
(* The classifier and the analyzer as functions of one profile row *)

\* a profile row as preprocess_data builds it: every column present, the
\* columns that are not listed in f empty
ProfileRow(f) ==
    [c \in ProfileCols |->
        IF c \in DOMAIN f THEN f[c]
        ELSE IF c = "ENCODED_MCT" THEN MerchantIds[1]
        ELSE IF c \in StaticColSet THEN Str(<<"A">>)
        ELSE IF c \in QuartileColSet THEN None
        ELSE NaN]

\* rows for the classifier: means on both sides of every threshold or
\* missing; buckets as the file's labels, as display labels, or missing
ClassifierRows ==
    { ProfileRow(f) : f \in
        [M12_SME_RY_SAA_PCE_RT : {NaN, Pct(20), Pct(40), Pct(90)},
         M12_SME_BZN_SAA_PCE_RT : {NaN, Pct(25), Pct(60), Pct(90)},
         MCT_UE_CLN_REU_RAT : {NaN, Pct(20), Pct(45), Pct(55)},
         MCT_UE_CLN_NEW_RAT : {NaN, Pct(70)},
         DLV_SAA_RAT : {NaN, Pct(60)},
         RC_M1_UE_CUS_CN : {None, B_90, QUARTILE_MAPPING[B_10], QUARTILE_MAPPING[B_75_90]},
         RC_M1_AV_NP_AT : {None, B_10, QUARTILE_MAPPING[B_10], QUARTILE_MAPPING[B_90]},
         RC_M1_SHC_RSD_UE_CLN_RAT : {NaN, Pct(30)},
         RC_M1_SHC_WP_UE_CLN_RAT : {Pct(10), Pct(50)},
         RC_M1_SHC_FLP_UE_CLN_RAT : {NaN, Pct(40)},
         MCT_OPE_MS_CN : {None, B_25_50, B_90}] }

\* rows that hold the two ranks and no other key: every other input of the
\* classifier takes the default of its get
RankOnlyRows ==
    [M12_SME_RY_SAA_PCE_RT : {NaN, Pct(20), Pct(40), Pct(90)},
     M12_SME_BZN_SAA_PCE_RT : {NaN, Pct(25), Pct(60), Pct(90)}]

InitClassify ==
    /\ csv = Nothing
    /\ df = Nothing
    /\ calls_on_df = 0
    /\ df_profile = Nothing
    /\ prev_profile = Nothing
    /\ merchant_row \in ClassifierRows \cup RankOnlyRows
    /\ analysis = Nothing
    /\ mbti = Nothing
    /\ persona = Nothing
    /\ session = Nothing
    /\ run = Nothing

\* a call classify_merchant_mbti(merchant_row)
ClassifyCall ==
    /\ merchant_row # Nothing
    /\ mbti = Nothing
    /\ mbti' = classify_merchant_mbti(merchant_row)
    /\ UNCHANGED <<csv, df, calls_on_df, df_profile, prev_profile, merchant_row, analysis, persona, session, run>>

SpecClassify == InitClassify /\ [][ClassifyCall]_vars

\* rows for the analyzer: ratios and ranks at, next to and away from the
\* thresholds, or missing
AnalyzerRows ==
    { ProfileRow(f) : f \in
        [MCT_UE_CLN_REU_RAT : {NaN, Pct(20), Pct(30), Num(3001), Pct(60)},
         MCT_UE_CLN_NEW_RAT : {NaN, Pct(40), Pct(50), Num(5001)},
         M12_SME_RY_SAA_PCE_RT : {NaN, Pct(20), Pct(30), Pct(70), Pct(90)},
         M12_SME_BZN_SAA_PCE_RT : {NaN, Pct(20), Pct(30), Pct(70), Pct(90)},
         M12_MAL_30_RAT : {NaN, Pct(30), Pct(50)},
         M12_FME_1020_RAT : {NaN, Pct(30), Num(4999), Pct(60)},
         RC_M1_SHC_RSD_UE_CLN_RAT : {NaN, Pct(30)},
         RC_M1_SHC_WP_UE_CLN_RAT : {NaN, Pct(10), Pct(50)},
         RC_M1_SHC_FLP_UE_CLN_RAT : {NaN, Pct(50)}] }

InitAnalyze ==
    /\ csv = Nothing
    /\ df = Nothing
    /\ calls_on_df = 0
    /\ df_profile = Nothing
    /\ prev_profile = Nothing
    /\ merchant_row \in AnalyzerRows
    /\ analysis = Nothing
    /\ mbti = Nothing
    /\ persona = Nothing
    /\ session = Nothing
    /\ run = Nothing

\* a call analyze_merchant(merchant_row)
AnalyzeCall ==
    /\ merchant_row # Nothing
    /\ analysis = Nothing
    /\ analysis' = analyze_merchant(merchant_row)
    /\ UNCHANGED <<csv, df, calls_on_df, df_profile, prev_profile, merchant_row, mbti, persona, session, run>>

SpecAnalyze == InitAnalyze /\ [][AnalyzeCall]_vars


----------------------------------------------------------------------------
(* Claims about the classifier, under SpecClassify *)

\* the branches whose condition is True on the row
Matching(row) == {i \in DOMAIN RuleLabel : RuleEval(i, row) = "T"}

Least(S) == CHOOSE i \in S : \A j \in S : i <= j

\* the label of the first branch whose condition is True, else the default
FirstMatchLabel(row) ==
    IF Matching(row) = {} THEN DefaultLabel ELSE RuleLabel[Least(Matching(row))]

Classified == merchant_row # Nothing /\ mbti # Nothing

HasKey(row, c) == c \in DOMAIN row

\* C1: a row on which the conditions of two or more branches are True gets
\* the label of the earliest of them.
C1_FirstMatchWins ==
    (Classified /\ Cardinality(Matching(merchant_row)) >= 2)
        => (mbti.kind = "return" /\ mbti.name = FirstMatchLabel(merchant_row))

\* C1, on the calls that return: the label is that of the earliest branch
\* whose condition is True.
C1_FirstMatchWinsOnReturn ==
    (Classified /\ mbti.kind = "return" /\ Cardinality(Matching(merchant_row)) >= 2)
        => mbti.name = FirstMatchLabel(merchant_row)

\* C1, on the rows with no missing bucket: the call returns the label of the
\* earliest branch whose condition is True.
C1_FirstMatchWinsOnStrings ==
    (/\ Classified
     /\ \A c \in {"RC_M1_UE_CUS_CN", "RC_M1_AV_NP_AT"} :
            HasKey(merchant_row, c) => IsStr(merchant_row[c])
     /\ Cardinality(Matching(merchant_row)) >= 2)
        => (mbti.kind = "return" /\ mbti.name = FirstMatchLabel(merchant_row))

\* C2: a row whose category rank and district rank are both below 30 is
\* classified as the top-tier archetype (상권의 지배자) with its description,
\* whatever its other fields hold, missing and absent ones included.
C2_BothRanksBelow30 ==
    (/\ Classified
     /\ Lt(Get(merchant_row, "M12_SME_RY_SAA_PCE_RT", Pct(100)), Pct(30))
     /\ Lt(Get(merchant_row, "M12_SME_BZN_SAA_PCE_RT", Pct(100)), Pct(30)))
        => mbti = [kind |-> "return", name |-> "sanggwonui_jibaeja",
                   description |-> STORE_TYPE_DEFINITIONS["sanggwonui_jibaeja"]]

\* C2 witness: ranks 20 and 25, both buckets missing and a delivery ratio
\* that satisfies a later branch; the top-tier archetype is returned
C2_Witness ==
    /\ Classified
    /\ HasKey(merchant_row, "RC_M1_AV_NP_AT")
    /\ merchant_row["M12_SME_RY_SAA_PCE_RT"] = Pct(20)
    /\ merchant_row["M12_SME_BZN_SAA_PCE_RT"] = Pct(25)
    /\ merchant_row["RC_M1_AV_NP_AT"] = None
    /\ merchant_row["RC_M1_UE_CUS_CN"] = None
    /\ merchant_row["DLV_SAA_RAT"] = Pct(60)
    /\ mbti.name = "sanggwonui_jibaeja"

\* C3: every call returns one of the ten archetypes with the description
\* STORE_TYPE_DEFINITIONS gives it, and the default archetype when no
\* branch condition is True.
C3_OneOfTenWithDescription ==
    Classified =>
        /\ mbti.kind = "return"
        /\ mbti.name \in DOMAIN STORE_TYPE_DEFINITIONS
        /\ mbti.description = STORE_TYPE_DEFINITIONS[mbti.name]
        /\ (Matching(merchant_row) = {} => mbti.name = DefaultLabel)

\* C3, on the calls that return
C3_OneOfTenOnReturn ==
    (Classified /\ mbti.kind = "return") =>
        /\ mbti.name \in DOMAIN STORE_TYPE_DEFINITIONS
        /\ mbti.description = STORE_TYPE_DEFINITIONS[mbti.name]
        /\ (Matching(merchant_row) = {} => mbti.name = DefaultLabel)

\* a classifier input of the row is missing
SomeInputMissing(row) ==
    \E c \in {"M12_SME_RY_SAA_PCE_RT", "M12_SME_BZN_SAA_PCE_RT", "MCT_UE_CLN_REU_RAT",
              "MCT_UE_CLN_NEW_RAT", "DLV_SAA_RAT", "RC_M1_UE_CUS_CN", "RC_M1_AV_NP_AT",
              "RC_M1_SHC_RSD_UE_CLN_RAT", "RC_M1_SHC_WP_UE_CLN_RAT",
              "RC_M1_SHC_FLP_UE_CLN_RAT", "MCT_OPE_MS_CN"} :
        HasKey(row, c) /\ IsNa(row[c])

\* C4: a row with missing inputs is still classified: the call returns a
\* label, the one of the first branch whose condition is True when a branch
\* that uses a missing input counts as not matching.
C4_MissingNeverFails ==
    (Classified /\ SomeInputMissing(merchant_row))
        => (mbti.kind = "return" /\ mbti.name = FirstMatchLabel(merchant_row))

\* C4, for missing ratios only: with both buckets present the call returns
C4_MissingRatiosNeverFail ==
    (/\ Classified
     /\ SomeInputMissing(merchant_row)
     /\ \A c \in {"RC_M1_UE_CUS_CN", "RC_M1_AV_NP_AT"} :
            HasKey(merchant_row, c) => IsStr(merchant_row[c]))
        => (mbti.kind = "return" /\ mbti.name = FirstMatchLabel(merchant_row))

----------------------------------------------------------------------------
(* Claims about the analyzer, under SpecAnalyze *)

Analysed == merchant_row # Nothing /\ analysis # Nothing

LowRetentionTemplates == {"retention_low_new_inflow", "retention_low_new_weak"}

\* C5: with both ratios present, the retention sentence is a low-retention
\* one exactly when the repeat ratio is <= 30.0, and the good-retention one
\* otherwise: 30.0 gives a low-retention sentence, 30.01 the good one.
C5_RetentionBoundary ==
    LET repeat_rate == merchant_row["MCT_UE_CLN_REU_RAT"]
        new_rate == merchant_row["MCT_UE_CLN_NEW_RAT"]
        template == analysis.retention_analysis_text.template
    IN  (Analysed /\ ~IsNa(repeat_rate) /\ ~IsNa(new_rate)) =>
            /\ template \in LowRetentionTemplates <=> Le(repeat_rate, Pct(30))
            /\ template = "retention_good" <=> ~Le(repeat_rate, Pct(30))
            /\ repeat_rate = Pct(30) => template \in LowRetentionTemplates
            /\ repeat_rate = Num(3001) => template = "retention_good"

\* C5 witness: a repeat ratio of exactly 30.0 with the new ratio present
\* gives a low-retention sentence
C5_Witness ==
    /\ Analysed
    /\ merchant_row["MCT_UE_CLN_REU_RAT"] = Pct(30)
    /\ merchant_row["MCT_UE_CLN_NEW_RAT"] = Pct(40)
    /\ analysis.retention_analysis_text.template = "retention_low_new_weak"
    /\ analysis.retention_analysis_text.args = <<<<"3", "0", ".", "0">>, <<"4", "0", ".", "0">>>>


----------------------------------------------------------------------------
(* Claims about the aggregation, under Spec *)

\* the latest call of preprocess_data returned a profile table
Returned == df_profile # Nothing /\ df_profile.kind = "return"

\* the rows of merchant m in the input file, in file order
FileRowsOf(m) ==
    LET mine(r) == r["ENCODED_MCT"] = m
    IN  SelectSeq(csv.rows, mine)

\* a cell of the file that is missing: empty, or the sentinel as a number
MissingCell(x) == IsNa(x) \/ (IsNum(x) /\ x.num = SV_VALUE /\ x.den = 1)

\* a cell of a ratio column that holds a value: a number, or text that
\* denotes one, other than the sentinel
RatioValue(x) == IsNum(to_numeric(x)) /\ to_numeric(x).num # SV_VALUE

\* C6: the profile value of every ratio column is the arithmetic mean of the
\* merchant's non-missing monthly values, and null (not zero) when the
\* merchant has none.
C6_MeanOfNonMissing ==
    Returned =>
        \A i \in DOMAIN df_profile.table : \A c \in MeanColSet :
            LET p == df_profile.table[i]
                rows == FileRowsOf(p["ENCODED_MCT"])
                valid == {j \in DOMAIN rows : RatioValue(rows[j][c])}
                total == SeqSum([j \in DOMAIN rows |->
                            IF j \in valid THEN to_numeric(rows[j][c]).num ELSE 0])
            IN  IF valid = {} THEN p[c] = NaN
                ELSE IsNum(p[c]) /\ p[c].num * Cardinality(valid) = total * p[c].den

\* C6 witness: a merchant with the monthly repeat ratios 20.0, 40.0 and a
\* missing one has the repeat ratio 30.0, and a null where a column has no
\* value in any month
C6_Witness ==
    /\ Returned
    /\ \E i \in DOMAIN df_profile.table :
        LET p == df_profile.table[i]
            rows == FileRowsOf(p["ENCODED_MCT"])
        IN  /\ Len(rows) = 3
            /\ Column(rows, "MCT_UE_CLN_REU_RAT") = <<Pct(20), Pct(40), NaN>>
            /\ p["MCT_UE_CLN_REU_RAT"] = Pct(30)
            /\ \E c \in MeanColSet :
                /\ \A j \in DOMAIN rows : ~RatioValue(rows[j][c])
                /\ p[c] = NaN

\* C7 as claimed: the profile value of every static column is the value of
\* the merchant's positionally first row, null when that row's cell is null.
C7_FirstRowValue ==
    Returned =>
        \A i \in DOMAIN df_profile.table : \A c \in StaticColSet :
            LET p == df_profile.table[i]
                rows == FileRowsOf(p["ENCODED_MCT"])
            IN  p[c] = (IF MissingCell(rows[1][c]) THEN NaN ELSE rows[1][c])

\* C7 as amended: the profile value of every static column is the value of
\* the merchant's first row in which the column is not null, and null only
\* when it is null in all of the merchant's rows; so it is the first row's
\* value whenever the first row's cell is not null.
C7_FirstNonNullValue ==
    Returned =>
        \A i \in DOMAIN df_profile.table : \A c \in StaticColSet :
            LET p == df_profile.table[i]
                rows == FileRowsOf(p["ENCODED_MCT"])
                held == {j \in DOMAIN rows : ~MissingCell(rows[j][c])}
            IN  /\ p[c] = (IF held = {} THEN NaN ELSE rows[Least(held)][c])
                /\ ~MissingCell(rows[1][c]) => p[c] = rows[1][c]

\* C7 witness: a merchant whose static column is null in its first row and
\* holds differing values in later rows; the profile holds the second row's
C7_Witness ==
    /\ Returned
    /\ \E i \in DOMAIN df_profile.table : \E c \in StaticColSet :
        LET p == df_profile.table[i]
            rows == FileRowsOf(p["ENCODED_MCT"])
        IN  /\ Len(rows) = 3
            /\ rows[1][c] = NaN
            /\ IsStr(rows[2][c]) /\ IsStr(rows[3][c]) /\ rows[2][c] # rows[3][c]
            /\ p[c] = rows[2][c]

\* the position of the first row of rows whose cell in column c is x
FirstRowWith(rows, c, x) == Least({j \in DOMAIN rows : rows[j][c] = x})

\* C8: the profile value of every bucket column is a label of the largest
\* count among the merchant's non-missing monthly labels, the one first in
\* row order among those of the largest count; null when there is none.
C8_ModeFirstOnTie ==
    Returned =>
        \A i \in DOMAIN df_profile.table : \A c \in QuartileColSet :
            LET p == df_profile.table[i]
                rows == FileRowsOf(p["ENCODED_MCT"])
                labels == {rows[j][c] : j \in {k \in DOMAIN rows : ~MissingCell(rows[k][c])}}
                n(x) == Cardinality({j \in DOMAIN rows : rows[j][c] = x})
            IN  IF labels = {} THEN IsNa(p[c])
                ELSE /\ p[c] \in labels
                     /\ \A x \in labels : n(x) <= n(p[c])
                     /\ \A x \in labels \ {p[c]} :
                            n(x) = n(p[c]) => FirstRowWith(rows, c, p[c]) < FirstRowWith(rows, c, x)

\* C8 witness: a merchant with two rows holding two different labels, one
\* each; the profile holds the label of the first row
C8_Witness ==
    /\ Returned
    /\ \E i \in DOMAIN df_profile.table : \E c \in QuartileColSet :
        LET p == df_profile.table[i]
            rows == FileRowsOf(p["ENCODED_MCT"])
        IN  /\ Len(rows) = 2
            /\ IsStr(rows[1][c]) /\ IsStr(rows[2][c]) /\ rows[1][c] # rows[2][c]
            /\ p[c] = rows[1][c]

\* C9: two calls of preprocess_data on the rows of one file give the same
\* outcome: the same merchants in the same order with the same values,
\* also when the second call gets the table object the first call got.
C9_Deterministic ==
    (df_profile # Nothing /\ prev_profile # Nothing) => df_profile = prev_profile

\* C9 witness: a second call on the same table object, whose numeric
\* columns the first call has rewritten, returned the same profile table
C9_Witness ==
    /\ Returned
    /\ calls_on_df = 2
    /\ df # csv
    /\ Len(df_profile.table) = 2
    /\ prev_profile = df_profile

\* no text of a sentence is a negative number
NoNegativeNumber(text) == \A k \in DOMAIN text.args : Head(text.args[k]) # "-"

RestrictTo(t, m) ==
    LET mine(r) == r["ENCODED_MCT"] = m
    IN  [t EXCEPT !.rows = SelectSeq(t.rows, mine)]

\* the ids of the rows of a table, in table order
IdsOf(rows) == [i \in DOMAIN rows |-> rows[i]["ENCODED_MCT"]]

\* C11: merchants are aggregated independently: the profile row of a merchant
\* is the one the aggregation gives on that merchant's rows alone, whatever
\* the rows of the other merchant hold, and a file with every required
\* column never aborts the aggregation.
C11_MerchantsIndependent ==
    /\ (df_profile # Nothing /\ csv.columns = RequiredColSet) => Returned
    /\ Returned =>
        \A i \in DOMAIN df_profile.table :
            LET p == df_profile.table[i]
                alone == preprocess_data(RestrictTo(csv, p["ENCODED_MCT"]))
            IN  alone.kind = "return" /\ alone.table = <<p>>

\* C11 witness: two merchants, a ratio column that is missing in every row
\* of the second and present for the first; the field is null for the
\* second only
C11_Witness ==
    /\ Returned
    /\ Len(df_profile.table) = 2
    /\ \E c \in MeanColSet :
        LET a == df_profile.table[1]
            b == df_profile.table[2]
            rowsB == FileRowsOf(b["ENCODED_MCT"])
        IN  /\ Len(rowsB) = 2
            /\ \A j \in DOMAIN rowsB : MissingCell(rowsB[j][c])
            /\ b[c] = NaN
            /\ IsNum(a[c])

\* C12: the profile table has exactly one row per merchant id of the input
\* rows: every id of the input occurs in it once, and no other id occurs.
C12_OneRowPerMerchant ==
    Returned =>
        LET ids == IdsOf(df_profile.table)
        IN  /\ Range(ids) = Range(IdsOf(csv.rows))
            /\ \A i, j \in DOMAIN ids : ids[i] = ids[j] => i = j
            /\ \A i \in DOMAIN ids : DOMAIN df_profile.table[i] = ProfileCols

\* C12 witness: three input rows of two merchants, the rows of the first
\* around the row of the second; the profile table has two rows
C12_Witness ==
    /\ Returned
    /\ IdsOf(csv.rows) = <<MerchantIds[1], MerchantIds[2], MerchantIds[1]>>
    /\ IdsOf(df_profile.table) = MerchantIds

----------------------------------------------------------------------------
(* data_processor.py: load_fixed_data *)

FIXED_DATA_PATH == "./data/merged_data.csv"

\* what the path holds: no file, a file whose bytes are not cp949 text, an
\* empty file, or a CSV table
NoFile == [file |-> "absent"]
UndecodableFile == [file |-> "not cp949"]
EmptyFile == [file |-> "empty"]
LoadFiles == {NoFile, UndecodableFile, EmptyFile} \cup CsvFiles

IsTable(f) == "rows" \in DOMAIN f

\* an exception of class kind with the message msg
Raise(kind, msg, raw) == [kind |-> kind, msg |-> msg, table |-> <<>>, df_raw |-> raw]

\* os.path.exists(path)
exists(f) == f # NoFile

\* pd.read_csv(path, encoding='cp949'): the table, or what it raises
read_csv(f) ==
    IF f = NoFile
        THEN Raise("FileNotFoundError",
                   [template |-> "No such file or directory", args |-> <<FIXED_DATA_PATH>>], Nothing)
    ELSE IF f = UndecodableFile
        THEN Raise("UnicodeDecodeError",
                   [template |-> "codec can't decode byte",
                    args |-> <<"cp949", "object", "start", "end", "reason">>], Nothing)
    ELSE IF f = EmptyFile
        THEN Raise("EmptyDataError",
                   [template |-> "No columns to parse from file", args |-> <<>>], Nothing)
    ELSE [kind |-> "return", msg |-> [template |-> "", args |-> <<>>], table |-> f.rows, df_raw |-> f]

\* the constructor UnicodeDecodeError(*args): it takes exactly the five
\* arguments encoding, object, start, end, reason
UnicodeDecodeError(args, raw) ==
    IF Len(args) = 5
        THEN Raise("UnicodeDecodeError", [template |-> "codec can't decode byte", args |-> args], raw)
    ELSE Raise("TypeError",
               [template |-> "function takes exactly 5 arguments (1 given)", args |-> <<>>], raw)

\* str(e) inside the message of line 111
StrOf(msg) == <<msg.template>> \o msg.args

\* the handlers of lines 108-111 on the exception e raised in the try block
except(e) ==
    IF e.kind = "UnicodeDecodeError"
        THEN UnicodeDecodeError(<<"encoding_error_file_must_be_cp949">>, e.df_raw)
    ELSE Raise("Exception",
               [template |-> "load_or_preprocess_failed", args |-> StrOf(e.msg)], e.df_raw)

\* lines 104-111: the try block and its handlers
try_load(f) ==
    LET r == read_csv(f)
    IN  IF r.kind # "return" THEN except(r)
        ELSE LET out == preprocess_data(r.df_raw)
             IN  IF out.kind = "return"
                    THEN [kind |-> "return", msg |-> [template |-> "", args |-> <<>>],
                          table |-> out.table, df_raw |-> out.arg]
                 ELSE except(Raise("ValueError",
                                   [template |-> "missing_required_columns",
                                    args |-> out.missing], out.arg))

\* faulty variant: no test that the path exists before the try block
load_fixed_data_unchecked(f) == try_load(f)

\* load_fixed_data(path), with f what the path holds: what it returns or
\* raises, and the table read (if any)
load_fixed_data(f) ==
    IF ~exists(f)
        THEN Raise("FileNotFoundError",
                   [template |-> "path_not_found", args |-> <<FIXED_DATA_PATH>>], Nothing)
    ELSE try_load(f)

InitLoad ==
    /\ csv \in LoadFiles
    /\ df = Nothing
    /\ calls_on_df = 0
    /\ df_profile = Nothing
    /\ prev_profile = Nothing
    /\ merchant_row = Nothing
    /\ analysis = Nothing
    /\ mbti = Nothing
    /\ persona = Nothing
    /\ session = Nothing
    /\ run = Nothing

\* a call load_fixed_data(FIXED_DATA_PATH); df is the table it read
LoadFixedData ==
    /\ df_profile = Nothing
    /\ LET out == load_fixed_data(csv)
       IN  /\ df_profile' = [kind |-> out.kind, msg |-> out.msg, table |-> out.table]
           /\ df' = out.df_raw
    /\ UNCHANGED <<csv, calls_on_df, prev_profile, merchant_row, analysis, mbti, persona, session, run>>

SpecLoad == InitLoad /\ [][LoadFixedData]_vars

----------------------------------------------------------------------------
(* Claims about load_fixed_data, under SpecLoad *)

\* the call of load_fixed_data has ended
Loaded == df_profile # Nothing

\* C13: on a path that does not exist the call raises FileNotFoundError with
\* a message naming the path; no table is read and no profile is returned.
C13_NotFound ==
    (Loaded /\ csv = NoFile) =>
        /\ df_profile.kind = "FileNotFoundError"
        /\ df_profile.msg = [template |-> "path_not_found", args |-> <<FIXED_DATA_PATH>>]
        /\ df_profile.table = <<>>
        /\ df = Nothing

\* C13 witness: the call on a missing path has raised FileNotFoundError
C13_Witness ==
    /\ csv = NoFile
    /\ Loaded
    /\ df_profile.kind = "FileNotFoundError"

\* C14 as claimed: on a file that is not cp949 text the call raises a
\* UnicodeDecodeError that carries the encoding message.
C14_EncodingError ==
    (Loaded /\ csv = UndecodableFile) =>
        /\ df_profile.kind = "UnicodeDecodeError"
        /\ df_profile.msg.args = <<"encoding_error_file_must_be_cp949">>

\* what the code does on such a file: the handler of line 109 fails to build
\* its UnicodeDecodeError, and the call ends in the TypeError of the
\* constructor, without the encoding message
C14_EncodingFailureIsTypeError ==
    (Loaded /\ csv = UndecodableFile) =>
        /\ df_profile.kind = "TypeError"
        /\ df_profile.msg.args = <<>>
        /\ df_profile.table = <<>>

\* C15 as claimed: on a table that lacks required columns the call fails
\* with an error that names the missing columns and whose kind differs from
\* that of a generic load failure (here: of an empty file); no profile.
C15_SchemaError ==
    (Loaded /\ IsTable(csv) /\ missing_cols(csv) # <<>>) =>
        /\ df_profile.kind # "return"
        /\ df_profile.table = <<>>
        /\ Range(missing_cols(csv)) \subseteq Range(df_profile.msg.args)
        /\ df_profile.kind # load_fixed_data(EmptyFile).kind

\* what the code does on such a table: the ValueError of line 76 is caught at
\* line 110 and replaced by a plain Exception whose text holds the names
C15_MissingColumnsAbort ==
    (Loaded /\ IsTable(csv) /\ missing_cols(csv) # <<>>) =>
        /\ df_profile.kind = "Exception"
        /\ df_profile.table = <<>>
        /\ df_profile.msg.template = "load_or_preprocess_failed"
        /\ Range(missing_cols(csv)) \subseteq Range(df_profile.msg.args)

----------------------------------------------------------------------------
(* Further claims about the analyzer, under SpecAnalyze *)

\* the ratios of the columns cols that the row holds
Present(row, cols) == {c \in Range(cols) : ~IsNa(row[c])}

\* the row with the columns cols made missing
Blank(row, cols) == [c \in DOMAIN row |-> IF c \in cols THEN NaN ELSE row[c]]

\* the row with every column but cols (and the id) made missing
Only(row, cols) == Blank(row, MeanColSet \ cols)

\* C16 as claimed: each diagnostic is its fixed insufficient-data sentence
\* whenever a value it requires is missing: retention when the repeat or the
\* new ratio is missing, the ranks' sentence when either rank is missing,
\* the concentration sentence when all age/gender ratios or all
\* customer-origin ratios are missing.
C16_InsufficientOnMissing ==
    Analysed =>
        /\ (IsNa(merchant_row["MCT_UE_CLN_REU_RAT"]) \/ IsNa(merchant_row["MCT_UE_CLN_NEW_RAT"]))
            => analysis.retention_analysis_text = [template |-> "retention_insufficient", args |-> <<>>]
        /\ (IsNa(merchant_row["M12_SME_RY_SAA_PCE_RT"]) \/ IsNa(merchant_row["M12_SME_BZN_SAA_PCE_RT"]))
            => analysis.comp_analysis_text = [template |-> "comp_insufficient", args |-> <<>>]
        /\ (Present(merchant_row, AGE_GENDER_COLS) = {} \/ Present(merchant_row, CUST_TYPE_COLS) = {})
            => /\ analysis.cust_analysis_text.template \notin {"cust_concentrated", "cust_diverse"}
               /\ analysis.cust_analysis_text.args = <<>>

\* what the code does: the retention and the rank sentences degrade as
\* claimed; the concentration sentence has no insufficient-data form, it is
\* the 'diverse' or 'concentrated' statement with the placeholder name
\* '정보 없음' and 0.0 for what is missing
C16_RetentionAndRanksDegrade ==
    Analysed =>
        /\ (IsNa(merchant_row["MCT_UE_CLN_REU_RAT"]) \/ IsNa(merchant_row["MCT_UE_CLN_NEW_RAT"]))
            => analysis.retention_analysis_text = [template |-> "retention_insufficient", args |-> <<>>]
        /\ (IsNa(merchant_row["M12_SME_RY_SAA_PCE_RT"]) \/ IsNa(merchant_row["M12_SME_BZN_SAA_PCE_RT"]))
            => analysis.comp_analysis_text = [template |-> "comp_insufficient", args |-> <<>>]
        /\ Present(merchant_row, AGE_GENDER_COLS) = {}
            => /\ analysis.cust_analysis_text.template = "cust_diverse"
               /\ analysis.cust_analysis_text.args[1] = NO_INFO
               /\ analysis.cust_analysis_text.args[3] = <<"0", ".", "0">>
        /\ Present(merchant_row, CUST_TYPE_COLS) = {}
            => analysis.cust_analysis_text.args[2] = NO_INFO

\* C17: the three diagnostics are independent: each sentence is the one the
\* analyzer gives on a row that holds only that diagnostic's inputs, and
\* making the inputs of one diagnostic missing leaves the other two
\* sentences unchanged.
C17_DiagnosticsIndependent ==
    Analysed =>
        LET ret == Range(RETENTION_COLS)
            comp == Range(COMPETITION_COLS)
            cust == Range(AGE_GENDER_COLS) \cup Range(CUST_TYPE_COLS)
            noRet == analyze_merchant(Blank(merchant_row, ret))
            noComp == analyze_merchant(Blank(merchant_row, comp))
            noCust == analyze_merchant(Blank(merchant_row, cust))
        IN  /\ analysis.retention_analysis_text
                = analyze_merchant(Only(merchant_row, ret)).retention_analysis_text
            /\ analysis.comp_analysis_text
                = analyze_merchant(Only(merchant_row, comp)).comp_analysis_text
            /\ analysis.cust_analysis_text
                = analyze_merchant(Only(merchant_row, cust)).cust_analysis_text
            /\ noRet.comp_analysis_text = analysis.comp_analysis_text
            /\ noRet.cust_analysis_text = analysis.cust_analysis_text
            /\ noComp.retention_analysis_text = analysis.retention_analysis_text
            /\ noComp.cust_analysis_text = analysis.cust_analysis_text
            /\ noCust.retention_analysis_text = analysis.retention_analysis_text
            /\ noCust.comp_analysis_text = analysis.comp_analysis_text

\* C17 witness: the retention inputs are missing and the retention sentence
\* is the insufficient-data one, while the ranks' and the concentration
\* sentences are computed from their values
C17_Witness ==
    /\ Analysed
    /\ IsNa(merchant_row["MCT_UE_CLN_REU_RAT"]) /\ IsNa(merchant_row["MCT_UE_CLN_NEW_RAT"])
    /\ analysis.retention_analysis_text.template = "retention_insufficient"
    /\ analysis.comp_analysis_text.template = "comp_low_in_both"
    /\ analysis.cust_analysis_text.template = "cust_concentrated"

\* the columns of cols whose ratio is the largest of the ratios the row holds
Largest(row, cols) ==
    {c \in Present(row, cols) : \A d \in Present(row, cols) : Ge(row[c], row[d])}

\* the sentence names the bracket and the type of the largest ratios, and
\* the placeholder for a group without ratios
NamesTheLargest ==
    /\ IF Present(merchant_row, AGE_GENDER_COLS) = {}
         THEN analysis.cust_analysis_text.args[1] = NO_INFO
       ELSE \E c \in Largest(merchant_row, AGE_GENDER_COLS) :
                /\ analysis.cust_analysis_text.args[1] = AGE_GENDER_NAMES[c]
                /\ analysis.cust_analysis_text.args[3] = Fmt1(merchant_row[c])
    /\ IF Present(merchant_row, CUST_TYPE_COLS) = {}
         THEN analysis.cust_analysis_text.args[2] = NO_INFO
       ELSE \E c \in Largest(merchant_row, CUST_TYPE_COLS) :
                analysis.cust_analysis_text.args[2] \o IYONG_GOGAEK = CUST_TYPE_NAMES[c]

\* C18 as claimed: the concentration sentence names the bracket and the type
\* of the largest ratios, and says 'concentrated' exactly when the largest
\* age/gender ratio exceeds 50%.
C18_ConcentratedAbove50 ==
    Analysed =>
        /\ NamesTheLargest
        /\ analysis.cust_analysis_text.template = "cust_concentrated"
            <=> \E c \in Present(merchant_row, AGE_GENDER_COLS) : Gt(merchant_row[c], Pct(50))
        /\ analysis.cust_analysis_text.template \in {"cust_concentrated", "cust_diverse"}

\* C18 as amended: the concentration sentence names the bracket and the type
\* of the largest ratios, and says 'concentrated' exactly when the largest
\* age/gender ratio is at least 50% (50.0 itself included), and 'diverse'
\* otherwise.
C18_ConcentratedAtLeast50 ==
    Analysed =>
        /\ NamesTheLargest
        /\ analysis.cust_analysis_text.template = "cust_concentrated"
            <=> \E c \in Present(merchant_row, AGE_GENDER_COLS) : Ge(merchant_row[c], Pct(50))
        /\ analysis.cust_analysis_text.template \in {"cust_concentrated", "cust_diverse"}

\* C18 witness: the largest age/gender ratio is exactly 50.0, next to a
\* smaller one, and the sentence says 'concentrated' for men in their 30s
C18_Witness ==
    /\ Analysed
    /\ merchant_row["M12_MAL_30_RAT"] = Pct(50)
    /\ merchant_row["M12_FME_1020_RAT"] = Num(4999)
    /\ merchant_row["RC_M1_SHC_WP_UE_CLN_RAT"] = Pct(50)
    /\ merchant_row["RC_M1_SHC_RSD_UE_CLN_RAT"] = Pct(30)
    /\ analysis.cust_analysis_text =
        [template |-> "cust_concentrated",
         args |-> <<AGE_GENDER_NAMES["M12_MAL_30_RAT"], <<"jik", "jang">>,
                    <<"5", "0", ".", "0">>>>]

\* the four sentences of the ranks' diagnostic
CompTemplates ==
    {"comp_top_in_both", "comp_good_category_low_district", "comp_low_in_both",
     "comp_review_needed"}

----------------------------------------------------------------------------
(* persona_generator.py *)

\* five female and five male names (romanised)
FEMALE_NAMES == <<"Kim Jia", "Park Seoyeon", "Lee Hayun", "Choi Jiu", "Jeong Minseo">>
MALE_NAMES == <<"Park Doyun", "Lee Siu", "Kim Juwon", "Jeong Eunu", "Choi Jiho">>

\* the six templates: '직장인_2030_가성비', '직장인_4050_프리미엄',
\* '거주자_가족_패밀리', '거주자_1인가구_혼밥족', '유동인구_관광_탐색형',
\* '유동인구_대중교통_환승객'; every sentence is named by its template and place
PERSONA_TEMPLATES ==
    [jikjangin_2030_gaseongbi |->
        [roles |-> <<"junior marketer", "new developer", "startup employee">>,
         goals |-> <<"office2030 goal 1", "office2030 goal 2">>,
         pain_points |-> <<"office2030 pain 1", "office2030 pain 2", "office2030 pain 3">>,
         channels |-> <<"naver map (price)", "office community", "instagram">>],
     jikjangin_4050_peurimieom |->
        [roles |-> <<"senior manager", "professional", "sales">>,
         goals |-> <<"office4050 goal 1", "office4050 goal 2">>,
         pain_points |-> <<"office4050 pain 1", "office4050 pain 2", "office4050 pain 3">>,
         channels |-> <<"acquaintances", "naver booking", "blue ribbon guide">>],
     geojuja_gajok_paemilli |->
        [roles |-> <<"parent", "homemaker", "freelancer">>,
         goals |-> <<"family goal 1", "family goal 2">>,
         pain_points |-> <<"family pain 1", "family pain 2", "family pain 3">>,
         channels |-> <<"local parents cafe", "danggeun market", "delivery app">>],
     geojuja_1ingagu_honbapjok |->
        [roles |-> <<"student", "single worker", "living alone">>,
         goals |-> <<"solo goal 1", "solo goal 2">>,
         pain_points |-> <<"solo pain 1", "solo pain 2", "solo pain 3">>,
         channels |-> <<"naver map (nearby)", "instagram (solo)", "youtube">>],
     yudongingu_gwangwang_tamsaekhyeong |->
        [roles |-> <<"tourist", "visitor", "couple">>,
         goals |-> <<"tourist goal 1", "tourist goal 2">>,
         pain_points |-> <<"tourist pain 1", "tourist pain 2", "tourist pain 3">>,
         channels |-> <<"instagram (place)", "blog", "mango plate">>],
     yudongingu_daejunggyotong_hwanseunggaek |->
        [roles |-> <<"commuter", "waiting for an appointment", "business traveller">>,
         goals |-> <<"transit goal 1", "transit goal 2">>,
         pain_points |-> <<"transit pain 1", "transit pain 2", "transit pain 3">>,
         channels |-> <<"naver map (here)", "kakao map", "transit community">>]]

\* the default of PERSONA_TEMPLATES.get at line 130
DefaultTemplateKey == "jikjangin_2030_gaseongbi"

\* the sentence appended at line 140
EXTRA_PAIN_POINT == "no place yet worth becoming a regular of"

\* '여성', '남성 ', '여성 ', '대'
YEOSEONG == <<"yeo", "seong">>
NAMSEONG_ == <<"nam", "seong", " ">>
YEOSEONG_ == <<"yeo", "seong", " ">>
DAE == "dae"

\* '직장', '거주', '유동인구'
JIKJANG == <<"jik", "jang">>
GEOJU == <<"geo", "ju">>
YUDONGINGU == <<"yu", "dong", "in", "gu">>

\* district categories: '주택가', '관광특구', '명소', '복합단지', '역세권'
JUTAEKGA == Str(<<"ju", "taek", "ga">>)
GWANGWANGTEUKGU == Str(<<"gwan", "gwang", "teuk", "gu">>)
MYEONGSO == Str(<<"myeong", "so">>)
BOKHAPDANJI == Str(<<"bok", "hap", "dan", "ji">>)
YEOKSEGWON == Str(<<"yeok", "se", "gwon">>)

\* '재방문 고객 비중이 낮아'
LOW_REPEAT_SHARE ==
    <<"jae", "bang", "mun", " ", "go", "gaek", " ", "bi", "jung", "i", " ", "naj", "a">>

\* the text of a sentence of the analyzer (lines 138-146 of
\* data_processor.py), or a text given as it is
Text(t) ==
    CASE t.template = "literal" -> Str(t.args[1])
      [] t.template = "retention_insufficient" ->
            Str(<<"jae", "bang", "mun", "yul", " ", "mit", " ", "sin", "gyu", " ", "go", "gaek",
                  " ", "bi", "jung", " ", "jeong", "bo", "ga", " ", "bul", "chung", "bun",
                  "ham", "ni", "da", ".">>)
      [] t.template = "retention_low_new_inflow" ->
            Str(<<"sin", "gyu", " ", "go", "gaek", "eun", " ", "kku", "jun", "hi", " ", "yu",
                  "ip", "(">> \o t.args[1]
                \o <<"%", ")", "doe", "go", " ", "iss", "eu", "na", ",", " ", "**", "jae",
                     "bang", "mun", " ", "go", "gaek", " ", "bi", "jung", "i", " ">>
                \o t.args[2]
                \o <<"%", "ro", " ", "naj", "a", "**", " ", "(the rest of the sentence)">>)
      [] t.template = "retention_low_new_weak" ->
            Str(<<"**", "jae", "bang", "mun", "yul", "i", " ">> \o t.args[1]
                \o <<"%", "ro", " ", "naj", "go", "**", ",", " ", "sin", "gyu", " ", "go",
                     "gaek", " ", "yu", "ip", "(">> \o t.args[2]
                \o <<"%", ")", "do", " ", "(the rest of the sentence)">>)
      [] t.template = "retention_good" ->
            Str(<<"jae", "bang", "mun", " ", "go", "gaek", " ", "bi", "jung", "i", " ">>
                \o t.args[1]
                \o <<"%", "ro", " ", "**", "yang", "ho", "han", " ", "su", "jun", "**", "i",
                     "myeo", ",", " ", "(the middle of the sentence)", " ">>
                \o t.args[2] \o <<"%", " ", "ip", "ni", "da", ".">>)

\* s.split(sep)[0]: the part of s before the first sep
SplitHead(s, sep) ==
    IF \E i \in DOMAIN s : s[i] = sep
        THEN SubSeq(s, 1, (CHOOSE i \in DOMAIN s : s[i] = sep /\ \A j \in 1..(i - 1) : s[j] # sep) - 1)
    ELSE s

\* x * 1.2
Times12(x) == Rat(x.num * 12, x.den * 10)

\* random.sample(population, k) of a population of n: k positions, no repeats
Samples(n, k) == {s \in [1..k -> 1..n] : \A i, j \in 1..k : s[i] = s[j] => i = j}

\* the draws of one call: random.choice of a name and a role, random.sample
\* of two pain points and of two goals
Draws == [name : 1..5, job : 1..3, pain_points : Samples(3, 2), goals : Samples(2, 2)]

KeyError(key) == [kind |-> "KeyError", key |-> key]

\* lines 89-127: the key of the template, "" when no branch assigns one
persona_key(summary) ==
    LET info == summary["static_info"]
        dominant_ag_group == summary["dominant_ag_group"]
        primary_cust_type == summary["primary_cust_type"]
        gender == IF Contains(YEOSEONG, dominant_ag_group) THEN "yeoseong" ELSE "namseong"
        age_group == StrReplace(StrReplace(dominant_ag_group, NAMSEONG_, <<>>), YEOSEONG_, <<>>)
        age_code == SplitHead(age_group, DAE)
        avg_price == Get(summary, "RC_M1_AV_NP_AT", Num(0))
        is_premium == Gt(avg_price, Times12(Get(summary, "RC_M1_BZN_AV_NP_AT", Num(0))))
        young == age_code \in {<<"2", "0">>, <<"3", "0">>}
        middle == age_code \in {<<"4", "0">>, <<"5", "0">>}
        bzn == info["HPSN_MCT_BZN_CD_NM"]
    IN  IF primary_cust_type = JIKJANG
        THEN IF young \/ ~is_premium THEN "jikjangin_2030_gaseongbi"
             ELSE IF middle /\ is_premium THEN "jikjangin_4050_peurimieom"
             ELSE "jikjangin_2030_gaseongbi"
        ELSE IF primary_cust_type = GEOJU
        THEN IF bzn \in {JUTAEKGA}
             THEN IF middle /\ gender = "yeoseong" THEN "geojuja_gajok_paemilli"
                  ELSE IF young /\ Gt(Get(summary, "MCT_UE_CLN_NEW_RAT", Num(0)), Num(60))
                       THEN "geojuja_1ingagu_honbapjok"
                  ELSE "geojuja_gajok_paemilli"
             ELSE ""
        ELSE IF primary_cust_type = YUDONGINGU
        THEN IF bzn \in {GWANGWANGTEUKGU, MYEONGSO, BOKHAPDANJI}
                THEN "yudongingu_gwangwang_tamsaekhyeong"
             ELSE IF bzn \in {YEOKSEGWON} THEN "yudongingu_daejunggyotong_hwanseunggaek"
             ELSE "yudongingu_gwangwang_tamsaekhyeong"
        ELSE ""

\* line 130: PERSONA_TEMPLATES.get(persona_key, the default template)
template_of(summary) ==
    LET key == persona_key(summary)
    IN  IF key \in DOMAIN PERSONA_TEMPLATES THEN PERSONA_TEMPLATES[key]
        ELSE PERSONA_TEMPLATES[DefaultTemplateKey]

\* the cell x inside an f-string
StrText(x) == IF IsStr(x) THEN x.str ELSE <<"nan">>

\* faulty variant: the goals drawn from the default template
build_persona_default_goals(summary, d) ==
    LET template == template_of(summary)
        sampled == [i \in 1..2 |-> template.pain_points[d.pain_points[i]]]
    IN  [kind |-> "return",
         goals |-> [i \in 1..2 |-> PERSONA_TEMPLATES[DefaultTemplateKey].goals[d.goals[i]]],
         pain_points |-> sampled,
         channels |-> template.channels]

\* lines 89-155, once the three keys of lines 84-86 and dominant_ag_ratio
\* are there: the persona of the draws d
build_persona(summary, d) ==
    LET info == summary["static_info"]
        dominant_ag_group == summary["dominant_ag_group"]
        female == Contains(YEOSEONG, dominant_ag_group)
        gender == IF female THEN "yeoseong" ELSE "namseong"
        age_group == StrReplace(StrReplace(dominant_ag_group, NAMSEONG_, <<>>), YEOSEONG_, <<>>)
        name == IF female THEN FEMALE_NAMES[d.name] ELSE MALE_NAMES[d.name]
        template == template_of(summary)
        job == template.roles[d.job]
        sampled == [i \in 1..2 |-> template.pain_points[d.pain_points[i]]]
        low == In(LOW_REPEAT_SHARE,
                  Text(Get(summary, "retention_analysis_text",
                           [template |-> "literal", args |-> <<<<>>>>])))
        pain_points == IF low = "T" THEN Append(sampled, EXTRA_PAIN_POINT) ELSE sampled
    IN  [kind |-> "return",
         name |-> [name |-> name, job |-> job, age_group |-> age_group, gender |-> gender],
         description |->
            [template |-> "persona_description",
             name |-> name, age_group |-> age_group, gender |-> gender, job |-> job,
             bzn |-> StrText(info["HPSN_MCT_BZN_CD_NM"]),
             zcd |-> StrText(info["HPSN_MCT_ZCD_NM"]),
             ratio |-> Fmt1(summary["dominant_ag_ratio"])],
         goals |-> [i \in 1..2 |-> template.goals[d.goals[i]]],
         pain_points |-> pain_points,
         channels |-> template.channels]

\* create_persona(merchant_row, analysis_summary) with the draws d: the
\* persona, or the KeyError of the first key the summary lacks
create_persona(row, summary, d) ==
    IF "static_info" \notin DOMAIN summary THEN KeyError("static_info")
    ELSE IF "dominant_ag_group" \notin DOMAIN summary THEN KeyError("dominant_ag_group")
    ELSE IF "primary_cust_type" \notin DOMAIN summary THEN KeyError("primary_cust_type")
    ELSE IF "dominant_ag_ratio" \notin DOMAIN summary THEN KeyError("dominant_ag_ratio")
    ELSE build_persona(summary, d)

\* the summaries handed to create_persona: results of analyze_merchant, and
\* summaries that hold the keys create_persona reads
AnalyzerSummaries ==
    { analyze_merchant(ProfileRow(f)) : f \in
        [MCT_UE_CLN_REU_RAT : {NaN, Pct(20), Pct(60)},
         MCT_UE_CLN_NEW_RAT : {Pct(40), Pct(60)},
         M12_FME_1020_RAT : {Pct(60)},
         RC_M1_SHC_WP_UE_CLN_RAT : {Pct(50)}] }

RetentionTexts ==
    { retention_analysis(ProfileRow(f)) : f \in
        [MCT_UE_CLN_REU_RAT : {NaN, Pct(20), Pct(60)},
         MCT_UE_CLN_NEW_RAT : {Pct(40), Pct(60)}] }
    \cup {[template |-> "literal", args |-> <<LOW_REPEAT_SHARE>>]}

BaseSummaries ==
    [static_info : [HPSN_MCT_BZN_CD_NM : {JUTAEKGA, MYEONGSO, YEOKSEGWON, NaN},
                    HPSN_MCT_ZCD_NM : {Str(<<"A">>)}],
     dominant_ag_group : {AGE_GENDER_NAMES["M12_FME_1020_RAT"], AGE_GENDER_NAMES["M12_FME_40_RAT"],
                          AGE_GENDER_NAMES["M12_MAL_50_RAT"], NO_INFO},
     primary_cust_type : {JIKJANG, GEOJU, YUDONGINGU, NO_INFO},
     dominant_ag_ratio : {Pct(55)},
     retention_analysis_text : RetentionTexts]

\* with and without the keys read through get: a price above 1.2 times the
\* district's, and a new-customer ratio above 0.6
CompleteSummaries ==
    BaseSummaries
    \cup { s @@ [RC_M1_AV_NP_AT |-> Pct(150), RC_M1_BZN_AV_NP_AT |-> Pct(100),
                 MCT_UE_CLN_NEW_RAT |-> Pct(70)] : s \in BaseSummaries }

InitPersona ==
    /\ csv = Nothing
    /\ df = Nothing
    /\ calls_on_df = 0
    /\ df_profile = Nothing
    /\ prev_profile = Nothing
    /\ merchant_row = Nothing
    /\ analysis \in AnalyzerSummaries \cup CompleteSummaries
    /\ mbti = Nothing
    /\ persona = Nothing
    /\ session = Nothing
    /\ run = Nothing

\* a call create_persona(merchant_row, analysis)
CreatePersona ==
    /\ analysis # Nothing
    /\ persona = Nothing
    /\ \E d \in Draws : persona' = create_persona(merchant_row, analysis, d)
    /\ UNCHANGED <<csv, df, calls_on_df, df_profile, prev_profile, merchant_row, analysis, mbti, session, run>>

SpecPersona == InitPersona /\ [][CreatePersona]_vars

----------------------------------------------------------------------------
(* Claims about the persona generator, under SpecPersona *)

\* the call of create_persona returned a persona
Generated == persona # Nothing /\ persona.kind = "return"

\* the sentences of the field of every template but the one of key
OfOtherTemplates(key, field) ==
    UNION { Range(PERSONA_TEMPLATES[k][field]) : k \in DOMAIN PERSONA_TEMPLATES \ {key} }

\* the key of the template line 130 selects
SelectedKey ==
    IF persona_key(analysis) \in DOMAIN PERSONA_TEMPLATES THEN persona_key(analysis)
    ELSE DefaultTemplateKey

\* C20: in every persona create_persona returns, goals are 2 distinct
\* entries of the selected template's goals, pain_points are 2 distinct
\* entries of its pain_points followed by at most the one fixed extra
\* sentence, and no goal or pain point is a sentence of another template.
C20_SampledFromSelectedTemplate ==
    Generated =>
        LET t == PERSONA_TEMPLATES[SelectedKey]
            g == persona.goals
            pp == persona.pain_points
        IN  /\ Len(g) = 2 /\ g[1] # g[2]
            /\ Range(g) \subseteq Range(t.goals)
            /\ Len(pp) \in {2, 3}
            /\ pp[1] # pp[2]
            /\ {pp[1], pp[2]} \subseteq Range(t.pain_points)
            /\ Len(pp) = 3 => pp[3] = EXTRA_PAIN_POINT
            /\ Range(g) \cap OfOtherTemplates(SelectedKey, "goals") = {}
            /\ Range(pp) \cap OfOtherTemplates(SelectedKey, "pain_points") = {}

\* C20 witness: a persona of a template other than the default, with two
\* of its pain points, not in list order, and the extra sentence
C20_Witness ==
    /\ Generated
    /\ SelectedKey = "yudongingu_daejunggyotong_hwanseunggaek"
    /\ persona.goals = <<"transit goal 2", "transit goal 1">>
    /\ persona.pain_points = <<"transit pain 3", "transit pain 1", EXTRA_PAIN_POINT>>

\* the summary is a result of analyze_merchant, as it is
FromAnalyzer == analysis \in AnalyzerSummaries

\* the call of create_persona has ended
PersonaCalled == analysis # Nothing /\ persona # Nothing

\* C21 as claimed: when the retention sentence of the analysis is a
\* low-retention sentence of analyze_merchant, the persona made from that
\* analysis has the extra pain point (3 pain points); when it is the
\* good-retention or the insufficient-data sentence it has exactly 2.
C21_ExtraPainPointOnLowRetention ==
    (PersonaCalled /\ analysis.retention_analysis_text.template # "literal") =>
        /\ persona.kind = "return"
        /\ IF analysis.retention_analysis_text.template \in LowRetentionTemplates
             THEN /\ Len(persona.pain_points) = 3
                  /\ persona.pain_points[3] = EXTRA_PAIN_POINT
           ELSE Len(persona.pain_points) = 2

\* what the code does: no sentence of analyze_merchant contains the words
\* line 139 looks for (the low-retention sentences hold the ratio between
\* '비중이' and '낮아'), so a persona made from an analyzer sentence never
\* has the extra pain point
C21_NoExtraOnAnalyzerSentences ==
    /\ \A t \in RetentionTexts :
            t.template # "literal" => In(LOW_REPEAT_SHARE, Text(t)) = "F"
    /\ (Generated /\ analysis.retention_analysis_text.template # "literal")
            => Len(persona.pain_points) = 2

\* C22 as claimed: the result of analyze_merchant holds the scalar summary
\* values create_persona reads, so create_persona applied to it returns a
\* persona and never fails on a missing field.
C22_AnalyzerOutputFeedsPersona ==
    (PersonaCalled /\ FromAnalyzer) =>
        /\ {"dominant_ag_group", "primary_cust_type", "dominant_ag_ratio"} \subseteq DOMAIN analysis
        /\ persona.kind = "return"

\* what the code does: the result of analyze_merchant has seven entries,
\* none of them a scalar summary value, and create_persona on it raises
\* KeyError at its first scalar lookup (line 85)
C22_KeyErrorOnAnalyzerOutput ==
    (PersonaCalled /\ FromAnalyzer) =>
        /\ DOMAIN analysis = {"cust_analysis_text", "retention_analysis_text",
                              "comp_analysis_text", "static_info", "metric_info",
                              "age_gender_cols", "age_gender_names"}
        /\ persona = KeyError("dominant_ag_group")

\* the templates of the family of a customer-origin type
FamilyOf(type) ==
    IF type = JIKJANG THEN {"jikjangin_2030_gaseongbi", "jikjangin_4050_peurimieom"}
    ELSE IF type = GEOJU THEN {"geojuja_gajok_paemilli", "geojuja_1ingagu_honbapjok"}
    ELSE IF type = YUDONGINGU
        THEN {"yudongingu_gwangwang_tamsaekhyeong", "yudongingu_daejunggyotong_hwanseunggaek"}
    ELSE {}

\* the persona was made from one of the templates keys
MadeFrom(keys) ==
    \E k \in keys :
        /\ persona.channels = PERSONA_TEMPLATES[k].channels
        /\ Range(persona.goals) \subseteq Range(PERSONA_TEMPLATES[k].goals)

\* C24 as claimed: the template of the persona belongs to the family of the
\* dominant customer-origin type (worker, resident, floating population),
\* for every district category and age bracket.
C24_TemplateOfDominantType ==
    (Generated /\ analysis.primary_cust_type \in {JIKJANG, GEOJU, YUDONGINGU}) =>
        MadeFrom(FamilyOf(analysis.primary_cust_type))

\* what the code does: worker- and floating-dominant merchants get a
\* template of their family, and so do resident-dominant ones in the
\* district category '주택가'; a resident-dominant merchant anywhere else is
\* given no key and gets the worker template '직장인_2030_가성비'
C24_ResidentOutsideHousingGetsWorker ==
    Generated =>
        LET type == analysis.primary_cust_type
            bzn == analysis.static_info["HPSN_MCT_BZN_CD_NM"]
        IN  /\ type \in {JIKJANG, YUDONGINGU} => MadeFrom(FamilyOf(type))
            /\ (type = GEOJU /\ bzn = JUTAEKGA) => MadeFrom(FamilyOf(type))
            /\ (type = GEOJU /\ bzn # JUTAEKGA) => MadeFrom({DefaultTemplateKey})

----------------------------------------------------------------------------
(* Claims about the retention sentences, under SpecAnalyze *)

\* C23 as claimed: with both ratios present, each of the four combinations
\* of the outcomes of  repeat ratio <= 30  and  new ratio > 50  has a
\* sentence template of its own.
C23_FourTemplates ==
    LET repeat_rate == merchant_row["MCT_UE_CLN_REU_RAT"]
        new_rate == merchant_row["MCT_UE_CLN_NEW_RAT"]
        template == analysis.retention_analysis_text.template
        own == [low \in BOOLEAN, inflow \in BOOLEAN |->
                    IF low THEN (IF inflow THEN "retention_low_new_inflow"
                                 ELSE "retention_low_new_weak")
                    ELSE (IF inflow THEN "retention_good_new_inflow" ELSE "retention_good")]
    IN  (Analysed /\ ~IsNa(repeat_rate) /\ ~IsNa(new_rate)) =>
            template = own[Le(repeat_rate, Pct(30)), Gt(new_rate, Pct(50))]

\* C23 as amended: with both ratios present the retention sentence is one of
\* three templates: low retention with new inflow (repeat <= 30, new > 50),
\* low retention with weak inflow (repeat <= 30, new <= 50), and good
\* retention (repeat > 30, whatever the new ratio, which is only printed);
\* the fourth sentence of the diagnostic is the insufficient-data one, used
\* exactly when a ratio is missing.
C23_ThreeTemplatesAndInsufficient ==
    LET repeat_rate == merchant_row["MCT_UE_CLN_REU_RAT"]
        new_rate == merchant_row["MCT_UE_CLN_NEW_RAT"]
        text == analysis.retention_analysis_text
        low == Le(repeat_rate, Pct(30))
        inflow == Gt(new_rate, Pct(50))
    IN  Analysed =>
            IF IsNa(repeat_rate) \/ IsNa(new_rate)
                THEN text = [template |-> "retention_insufficient", args |-> <<>>]
            ELSE /\ text.template = "retention_low_new_inflow" <=> (low /\ inflow)
                 /\ text.template = "retention_low_new_weak" <=> (low /\ ~inflow)
                 /\ text.template = "retention_good" <=> ~low
                 /\ text.args = IF low /\ inflow
                                    THEN <<Fmt1(new_rate), Fmt1(repeat_rate)>>
                                ELSE <<Fmt1(repeat_rate), Fmt1(new_rate)>>

\* C23 witness: a repeat ratio above 30 with a new ratio above 50 gives the
\* good-retention sentence, the one a new ratio below 50 gives too
C23_Witness ==
    /\ Analysed
    /\ merchant_row["MCT_UE_CLN_REU_RAT"] = Pct(60)
    /\ merchant_row["MCT_UE_CLN_NEW_RAT"] = Num(5001)
    /\ analysis.retention_analysis_text.template = "retention_good"
    /\ retention_analysis([merchant_row EXCEPT !["MCT_UE_CLN_NEW_RAT"] = Pct(40)]).template
            = "retention_good"

----------------------------------------------------------------------------
(* The dominant customer-origin type, classifier against analyzer, under
   SpecClassify *)

\* the analyzer's name of each key of the classifier's cust_type_ratios
\* ('거주', '직장', '유동' against '거주', '직장', '유동인구')
OriginName == [geoju |-> GEOJU, jikjang |-> JIKJANG, yudong |-> YUDONGINGU]

\* primary_ct_name as analyze_merchant puts it in its first sentence
primary_ct_name(row) == cust_analysis(row).args[2]

HasOriginRatios(row) == Range(CUST_TYPE_COLS) \subseteq DOMAIN row

\* C29: the classifier and the analyzer name the same dominant
\* customer-origin type for every profile, also when some of the three
\* origin ratios are missing.
C29_SameDominantType ==
    (Classified /\ mbti.kind = "return" /\ HasOriginRatios(merchant_row)) =>
        OriginName[main_cust_type(merchant_row)] = primary_ct_name(merchant_row)

\* what the code does: the two agree when no origin ratio is missing, and
\* when the resident ratio is missing the classifier keeps '거주', the first
\* key of its dictionary, whatever the other ratios are
C29_AgreeUnlessMissing ==
    (Classified /\ mbti.kind = "return" /\ HasOriginRatios(merchant_row)) =>
        /\ Present(merchant_row, CUST_TYPE_COLS) = Range(CUST_TYPE_COLS) =>
                OriginName[main_cust_type(merchant_row)] = primary_ct_name(merchant_row)
        /\ IsNa(merchant_row["RC_M1_SHC_RSD_UE_CLN_RAT"]) =>
                /\ main_cust_type(merchant_row) = "geoju"
                /\ primary_ct_name(merchant_row) # GEOJU

----------------------------------------------------------------------------
(* classify_merchant_mbti on profiles whose bucket columns hold the labels
   of the input file *)

\* the six bucket labels of the input file
RawBucketLabels == {B_10, B_10_25, B_25_50, B_50_75, B_75_90, B_90}

\* profiles as preprocess_data builds them from a file without missing
\* values: bucket columns hold the file's labels (the mode of the labels of
\* the merchant's rows), ratio columns hold numbers between 0 and 100
RawLabelRows ==
    { ProfileRow(f) : f \in
        [M12_SME_RY_SAA_PCE_RT : {Pct(20), Pct(40), Pct(90)},
         M12_SME_BZN_SAA_PCE_RT : {Pct(25), Pct(60), Pct(90)},
         MCT_UE_CLN_REU_RAT : {Pct(20), Pct(45), Pct(55)},
         MCT_UE_CLN_NEW_RAT : {Pct(40), Pct(70)},
         DLV_SAA_RAT : {Pct(10), Pct(60)},
         RC_M1_UE_CUS_CN : RawBucketLabels,
         RC_M1_AV_NP_AT : RawBucketLabels,
         RC_M1_SHC_RSD_UE_CLN_RAT : {Pct(30), Pct(60)},
         RC_M1_SHC_WP_UE_CLN_RAT : {Pct(10), Pct(50)},
         RC_M1_SHC_FLP_UE_CLN_RAT : {Pct(40)},
         MCT_OPE_MS_CN : {B_25_50, B_90}] }

InitRawLabels ==
    /\ csv = Nothing
    /\ df = Nothing
    /\ calls_on_df = 0
    /\ df_profile = Nothing
    /\ prev_profile = Nothing
    /\ merchant_row \in RawLabelRows
    /\ analysis = Nothing
    /\ mbti = Nothing
    /\ persona = Nothing
    /\ session = Nothing
    /\ run = Nothing

SpecRawLabels == InitRawLabels /\ [][ClassifyCall]_vars

\* the labels classify_merchant_mbti returns on the profiles of RawLabelRows
RawLabelNames == {classify_merchant_mbti(row).name : row \in RawLabelRows}

\* C30: every one of the ten labels of STORE_TYPE_DEFINITIONS is returned
\* for some profile whose bucket fields are labels of the input file and
\* whose ratio fields lie in 0..100.
C30_EveryArchetypeReachable ==
    merchant_row \in RawLabelRows =>
        \A label \in DOMAIN STORE_TYPE_DEFINITIONS : label \in RawLabelNames

\* what the code does: no label of the input file contains '하위' or '상위',
\* so the conditions of the two bucket branches are False on every such
\* profile, and the labels returned are the other eight
C30_BucketBranchesDead ==
    /\ Classified =>
        /\ mbti.kind = "return"
        /\ RuleEval(5, merchant_row) = "F" /\ RuleEval(6, merchant_row) = "F"
        /\ mbti.name \notin {"gagyeok_pagoeja", "godokhan_misikga"}
    /\ RawLabelNames = DOMAIN STORE_TYPE_DEFINITIONS \ {"gagyeok_pagoeja", "godokhan_misikga"}

----------------------------------------------------------------------------
(* app.py: main() as Streamlit runs it, one script run from top to bottom
   per user interaction, on the st.session_state of one browser session;
   gemini_api.py as far as main() calls it *)

\* a dictionary with key k set to v;  if k not in s: s[k] = v
Set(s, k, v) == (k :> v) @@ s
SetDefault(s, k, v) == IF k \in DOMAIN s THEN s ELSE Set(s, k, v)

\* st.session_state of a new browser session holds no key
NewSession == [k \in {} |-> None]

\* the empty string; a text is a sequence of tokens
EMPTY == <<>>

\* the merged file of the deployment: absent, or one row for each of the two
\* merchants, the second with its RC_M1_AV_NP_AT cell empty or filled
AppRow(i, m, k, spend) ==
    [RawRow(RequiredColSet, i, m, k) EXCEPT !["RC_M1_AV_NP_AT"] = spend]

AppMergedFiles ==
    {NoFile} \cup
    { [columns |-> RequiredColSet,
       rows |-> <<RawRow(RequiredColSet, 1, MerchantIds[1], a),
                  AppRow(2, MerchantIds[2], b, spend)>>]
      : a \in {1, 2, 4}, b \in {1, 2, 4}, spend \in {NaN, B_25_50} }

\* the monthly file visualize.load_data reads: absent, or rows of these months
\* for every merchant
RefMonths == {[month |-> "2023-01"], [month |-> "2023-02"]}
MonthlyFile == [months |-> RefMonths]

\* the files main() finds
AppData == [merged : AppMergedFiles, monthly : {NoFile, MonthlyFile}]

\* the rows of merchant m in the profile table
RowsOf(table, m) ==
    LET is_m(r) == r["ENCODED_MCT"] = m
    IN  SelectSeq(table, is_m)

\* lines 135-138
init_session(s) == SetDefault(SetDefault(s, "generating", FALSE), "chat_messages", <<>>)

\* lines 36-45: every exception of load_fixed_data ends the run by st.stop()
cached_load_data(f) ==
    LET out == load_fixed_data(f)
    IN  IF out.kind = "return" THEN [kind |-> "return", table |-> out.table]
        ELSE [kind |-> "st.stop", table |-> <<>>]

\* lines 141-163: the profile and the merchant ids, loaded once per session
load_data_section(s, data) ==
    IF "df_profile" \in DOMAIN s
        THEN [kind |-> "return", session |-> SetDefault(s, "merchant_ids", IdsOf(s.df_profile))]
    ELSE LET out == cached_load_data(data.merged)
         IN  IF out.kind # "return" THEN [kind |-> "st.stop", session |-> s]
             ELSE [kind |-> "return",
                   session |-> SetDefault(Set(s, "df_profile", out.table),
                                          "merchant_ids", IdsOf(out.table))]

\* lines 259-279: the analysis is computed when the selection is not the one
\* recorded in last_mct, last_ref
analysis_section(s, table, selected_mct, selected_ref) ==
    IF selected_mct = None THEN Set(s, "analysis_result", None)
    ELSE LET df_mct == RowsOf(table, selected_mct)
         IN  IF df_mct = <<>> THEN Set(s, "analysis_result", None)
             ELSE IF \/ "last_mct" \notin DOMAIN s
                     \/ "last_ref" \notin DOMAIN s
                     \/ s.last_mct # selected_mct
                     \/ s.last_ref # selected_ref
                THEN LET s1 == Set(s, "analysis_result", analyze_merchant(df_mct[1]))
                         s2 == Set(s1, "last_mct", selected_mct)
                         s3 == Set(s2, "last_ref", selected_ref)
                         s4 == Set(s3, "marketing_proposal", EMPTY)
                     IN  Set(s4, "show_mbti_description", FALSE)
             ELSE s

\* lines 293-296: the keys main() reads from analysis_result, in order
ResultKeys == <<"summary", "persona", "mbti", "raw_data">>

\* gemini_api.py, lines 11-16: the parameters of
\* generate_marketing_text_with_gemini, none with a default
GenerateParams == <<"analysis_summary", "persona_info", "mbti_result", "mct_id">>

\* binding of a call with npos positional arguments and the keyword
\* arguments keywords to the parameters params
Binds(params, npos, keywords) ==
    /\ npos <= Len(params)
    /\ keywords \subseteq {params[i] : i \in (npos + 1)..Len(params)}
    /\ \A i \in (npos + 1)..Len(params) : params[i] \in keywords

\* gemini_api.py, lines 11-80: the text the body returns on every path (the
\* API's text or one of the error texts), here text with the merchant id of
\* the prompt; TypeError when the call does not bind
generate_marketing_text_with_gemini(npos, keywords, mct_id, text) ==
    IF Binds(GenerateParams, npos, keywords)
        THEN [kind |-> "return", text |-> <<text, mct_id>>]
    ELSE [kind |-> "TypeError", text |-> EMPTY]

\* lines 704-729: the generate button; the call of lines 719-725 passes four
\* positional arguments and override_target= (a dictionary or None)
generate_button(s, clicked, mct_id, text) ==
    IF ~(clicked /\ ~s.generating) THEN [end |-> "continue", session |-> s]
    ELSE LET s1 == Set(s, "generating", TRUE)
             proposal == generate_marketing_text_with_gemini(4, {"override_target"}, mct_id, text)
         IN  IF proposal.kind # "return" THEN [end |-> proposal.kind, session |-> s1]
             ELSE [end |-> "st.rerun",
                   session |-> Set(Set(Set(s1, "marketing_proposal", proposal.text),
                                       "chat_messages", <<>>),
                                   "generating", FALSE)]

\* line 854: the greeting
GREETING == [role |-> "assistant", content |-> Str(<<"ask", "about", "the", "strategy">>)]

\* gemini_api.py, lines 87-140: the text returned on every path
generate_chat_response_with_gemini(messages_history, response) == response

\* lines 47-69: the Q and A part of the report, chat_history[1:]
create_docx_report(mct_id, proposal, chat_history) ==
    [mct_id |-> mct_id, proposal |-> proposal,
     qa |-> IF Len(chat_history) > 1
                THEN [i \in 1..(Len(chat_history) - 1) |->
                        [role |-> IF chat_history[i + 1].role = "user" THEN "Q" ELSE "A",
                         content |-> chat_history[i + 1].content]]
            ELSE <<>>]

\* lines 734-892: with a proposal held, the proposal, the chat and the report;
\* prompt is None when the user entered no question
chat_section(s, selected_mct, prompt, response) ==
    IF Get(s, "marketing_proposal", EMPTY) = EMPTY
        THEN [session |-> s, shown |-> <<>>, history |-> <<>>, report |-> Nothing,
              chat_input |-> FALSE]
    ELSE LET s1 == IF s.chat_messages = <<>> THEN Set(s, "chat_messages", <<GREETING>>) ELSE s
             user == [role |-> "user", content |-> prompt]
             history == Append(s1.chat_messages, user)
             reply == [role |-> "assistant",
                       content |-> generate_chat_response_with_gemini(history, response)]
             s2 == IF prompt = None THEN s1
                   ELSE Set(s1, "chat_messages", Append(history, reply))
         IN  [session |-> s2,
              shown |-> s2.chat_messages,
              history |-> IF prompt = None THEN <<>> ELSE history,
              report |-> create_docx_report(selected_mct, s2.marketing_proposal,
                                            Get(s2, "chat_messages", <<>>)),
              chat_input |-> TRUE]

\* how a script run ended, at which line of app.py, and what it rendered:
\* the generate button, the chat messages and input, the history handed to
\* generate_chat_response_with_gemini, the report offered for download
Ended(s, selected_mct, end, line, key) ==
    [session |-> s, selected_mct |-> selected_mct, end |-> end, line |-> line, key |-> key,
     button |-> "none", chat_input |-> FALSE, shown |-> <<>>, history |-> <<>>,
     report |-> Nothing]

\* lines 613-894: the AI marketing tab
tab_llm(s, selected_mct, w) ==
    LET button == IF s.generating THEN "disabled" ELSE "enabled"
        b == generate_button(s, w.clicked, selected_mct, w.text)
    IN  IF b.end # "continue"
            THEN [Ended(b.session, selected_mct, b.end,
                        IF b.end = "st.rerun" THEN 729 ELSE 719, "")
                    EXCEPT !.button = button]
        ELSE LET c == chat_section(b.session, selected_mct, w.prompt, w.response)
             IN  [session |-> c.session, selected_mct |-> selected_mct,
                  end |-> "end of script", line |-> 894, key |-> "",
                  button |-> button, chat_input |-> c.chat_input, shown |-> c.shown,
                  history |-> c.history, report |-> c.report]

\* lines 281-894, on the session state s4 that the analysis section leaves
main_from_tabs(s4, selected_mct, w) ==
    LET absent(k) == k \notin DOMAIN s4.analysis_result
        missing == SelectSeq(ResultKeys, absent)
    IN  IF s4.analysis_result = None THEN Ended(s4, selected_mct, "st.stop", 289, "")
        ELSE IF missing # <<>>
            THEN Ended(s4, selected_mct, "KeyError", 292 + Index(ResultKeys, missing[1]),
                       missing[1])
        ELSE IF ~w.tabs_ok THEN Ended(s4, selected_mct, "st.stop", 319, "")
        ELSE tab_llm(s4, selected_mct, w)

\* a selectbox the user has not touched holds its first option
DEFAULT == [widget |-> "untouched"]

\* lines 165-894, on the outcome ld of the data section
main_from_sidebar(ld, data, w) ==
    IF ld.kind # "return" THEN Ended(ld.session, None, "st.stop", 44, "")
    ELSE
    LET s1 == ld.session
        filtered_merchants == s1.merchant_ids
        selected_mct == IF w.selected_mct # DEFAULT THEN w.selected_mct
                        ELSE IF filtered_merchants = <<>> THEN None
                        ELSE filtered_merchants[1]
        rows == RowsOf(s1.df_profile, selected_mct)
        s2 == Set(s1, "selected_mct", selected_mct)
        s3 == SetDefault(s2, "viz_df", data.monthly)
    IN  IF selected_mct = None THEN Ended(s1, None, "st.stop", 196, "")
        ELSE IF rows # <<>> /\ classify_merchant_mbti(rows[1]).kind # "return"
            THEN Ended(s1, selected_mct, "TypeError", 214, "")
        ELSE IF "viz_df" \notin DOMAIN s2 /\ data.monthly = NoFile
            THEN Ended(s2, selected_mct, "FileNotFoundError", 228, "")
        ELSE CHOOSE out \in
                { main_from_tabs(s4, selected_mct, w) :
                    s4 \in {analysis_section(s3, s3.df_profile, selected_mct, w.selected_ref)} } :
                TRUE

\* lines 125-894: one script run of main() on the session state s, the files
\* data and the widget values w.  An exception or st.stop() ends the run;
\* what the run wrote to the session state before stays written.
main(s, data, w) ==
    CHOOSE out \in { main_from_sidebar(ld, data, w) :
                        ld \in {load_data_section(init_session(s), data)} } : TRUE

\* the texts the two Gemini calls return
Texts == {Str(<<"plan">>)}
Responses == {Str(<<"reply">>)}
Questions == {Str(<<"question">>)}

\* the widget values a run can start with.  A widget takes a value of the
\* user's only if the run before rendered it: the merchant box after the
\* profile is loaded, the month box in a run that came to line 247, the
\* button when it was enabled, the chat input when it was shown; the run
\* st.rerun() starts repeats the selection with no click and no question.
Widgets(s, r) ==
    LET rerun == r # Nothing /\ r.end = "st.rerun"
        merchants == IF rerun THEN {r.selected_mct}
                     ELSE IF "df_profile" \in DOMAIN s THEN Range(s.merchant_ids) \cup {None}
                     ELSE {DEFAULT}
        months == IF rerun THEN {r.selected_ref}
                  ELSE IF r # Nothing /\ r.line >= 259 THEN RefMonths \cup {None}
                  ELSE {None}
        clicks == IF ~rerun /\ r # Nothing /\ r.button = "enabled" THEN BOOLEAN ELSE {FALSE}
        prompts == IF ~rerun /\ r # Nothing /\ r.chat_input THEN Questions \cup {None}
                   ELSE {None}
    IN  { w \in [selected_mct : merchants, selected_ref : months, clicked : clicks,
                 prompt : prompts, text : Texts, response : Responses, tabs_ok : BOOLEAN] :
            ~(w.clicked /\ w.prompt # None) }

InitApp ==
    /\ csv \in AppData
    /\ df = Nothing
    /\ calls_on_df = 0
    /\ df_profile = Nothing
    /\ prev_profile = Nothing
    /\ merchant_row = Nothing
    /\ analysis = Nothing
    /\ mbti = Nothing
    /\ persona = Nothing
    /\ session = NewSession
    /\ run = Nothing

\* one script run of main()
ScriptRun ==
    /\ session # Nothing
    /\ \E w \in Widgets(session, run) :
        \E out \in {main(session, csv, w)} :
            /\ session' = out.session
            /\ run' = [selected_mct |-> out.selected_mct, selected_ref |-> w.selected_ref,
                       clicked |-> w.clicked, prompt |-> w.prompt,
                       end |-> out.end, line |-> out.line, key |-> out.key,
                       button |-> out.button, chat_input |-> out.chat_input,
                       shown |-> out.shown, history |-> out.history, report |-> out.report]
    /\ UNCHANGED <<csv, df, calls_on_df, df_profile, prev_profile, merchant_row, analysis, mbti,
                   persona>>

SpecApp == InitApp /\ [][ScriptRun]_vars

----------------------------------------------------------------------------
(* Claims about main(), under SpecApp *)

\* a script run has ended
RunEnded == run # Nothing

\* the run selected a merchant (every merchant offered has a profile row)
MerchantSelected == RunEnded /\ run.selected_mct # None

\* the run came past the analysis section of lines 259-279
Analysing == MerchantSelected /\ run.line >= 259

\* the profile row of merchant m in the session's table
ProfileOf(m) == RowsOf(session.df_profile, m)[1]

\* what lines 259-279 are to leave for the selection of the run: the analysis
\* of the selected merchant, the selection recorded, and no proposal of
\* another merchant
OfCurrentSelection ==
    /\ "analysis_result" \in DOMAIN session
    /\ session.analysis_result = analyze_merchant(ProfileOf(run.selected_mct))
    /\ session.last_mct = run.selected_mct
    /\ session.last_ref = run.selected_ref
    /\ session.marketing_proposal # EMPTY => session.marketing_proposal[2] = run.selected_mct

\* C25: with the monthly file in place, after every run in which a merchant
\* is selected the analysis_result and any non-empty marketing_proposal of
\* the session state are those of the selected merchant and reference
\* month: a run whose selection differs from (last_mct, last_ref) recomputes
\* the analysis and empties the proposal.
C25_ResultOfCurrentSelection ==
    (MerchantSelected /\ csv.monthly # NoFile) => OfCurrentSelection

\* what the code does: the session state is that of the selection after the
\* runs that come to line 259; a run that classify_merchant_mbti ends at
\* line 214 leaves the analysis of the selection before
C25_CurrentWhenAnalysisReached ==
    /\ Analysing => OfCurrentSelection
    /\ (MerchantSelected /\ run.line = 214) =>
            /\ run.end = "TypeError"
            /\ "last_mct" \in DOMAIN session =>
                    /\ session.last_mct # run.selected_mct
                    /\ session.analysis_result = analyze_merchant(ProfileOf(session.last_mct))

\* C26: in every run that selects a merchant and comes to the guard of
\* lines 284-289, the analysis_result of the session state has the entries
\* 'summary', 'persona', 'mbti' and 'raw_data', and the run goes on to the
\* tabs without a KeyError.
C26_ResultProvidesEntries ==
    Analysing =>
        /\ Range(ResultKeys) \subseteq DOMAIN session.analysis_result
        /\ run.end # "KeyError"
        /\ run.line >= 300

\* what the code does: analysis_result is the dictionary of analyze_merchant,
\* which has none of the four entries, and every such run ends at line 293
\* with KeyError('summary'); no run renders a tab
C26_KeyErrorOnSummary ==
    /\ Analysing =>
        /\ session.analysis_result = analyze_merchant(ProfileOf(run.selected_mct))
        /\ Range(ResultKeys) \cap DOMAIN session.analysis_result = {}
        /\ run.end = "KeyError" /\ run.key = "summary" /\ run.line = 293
    /\ RunEnded => run.line < 300 /\ run.button = "none" /\ ~run.chat_input

\* C27: generating is False at the end of every run, and a click on the
\* generate button, handled by lines 705-729 on the session state of a run
\* that selected a merchant, ends with generating False, marketing_proposal
\* the text generate_marketing_text_with_gemini returned and chat_messages
\* empty.
C27_GeneratingReset ==
    /\ RunEnded => session.generating = FALSE
    /\ Analysing =>
        \A text \in Texts :
            LET click == generate_button(session, TRUE, run.selected_mct, text)
            IN  /\ click.session.generating = FALSE
                /\ click.session.marketing_proposal = <<text, run.selected_mct>>
                /\ click.session.chat_messages = <<>>

\* what the code does: the call of lines 719-725 passes override_target=,
\* which generate_marketing_text_with_gemini does not take; the TypeError
\* ends the run after line 706, with generating True, the proposal and the
\* chat as they were; in the runs of main() the button is never rendered
C27_ClickLeavesGeneratingSet ==
    /\ RunEnded => session.generating = FALSE /\ run.button = "none" /\ ~run.clicked
    /\ Analysing =>
        \A text \in Texts :
            LET click == generate_button(session, TRUE, run.selected_mct, text)
            IN  /\ click.end = "TypeError"
                /\ click.session = Set(session, "generating", TRUE)
                /\ generate_button(click.session, TRUE, run.selected_mct, text).end = "continue"

\* a displayed or exported chat: the greeting, then user and assistant in turn
Alternating(messages) ==
    \A i \in DOMAIN messages :
        /\ i = 1 => messages[i] = GREETING
        /\ i > 1 => messages[i].role = (IF i % 2 = 0 THEN "user" ELSE "assistant")

C28_ChatNeverShown ==
    /\ RunEnded =>
        /\ run.shown = <<>> /\ run.history = <<>> /\ run.report = Nothing
        /\ run.prompt = None
        /\ session.chat_messages = <<>>
        /\ Get(session, "marketing_proposal", EMPTY) = EMPTY
    /\ Analysing =>
        \A text \in Texts, response \in Responses :
            LET click == generate_button(session, TRUE, run.selected_mct, text)
                rerun == chat_section(click.session, run.selected_mct, None, response)
            IN  rerun.shown = <<>> /\ ~rerun.chat_input /\ rerun.report = Nothing

============================================================================
